---- MODULE Spec2Model ----
(***************************************************************************)
(* Model of the command-safety gateway of iphone-ssh-mcp: the path         *)
(* normalizer and allowlist enforcer, the denylist and write-intent        *)
(* classifier, the shell-safe encoder (security.ts), and the tool          *)
(* dispatcher that sequences them in front of the SSH transport (index.ts).*)
(*                                                                         *)
(* A JavaScript string is a sequence of one-character strings.             *)
(***************************************************************************)
EXTENDS Integers, Sequences, FiniteSets, TLC

VARIABLES
    call,      \* the policy-function call under test: [fn, paths, roots, cwd]
    out,       \* its outcome: [kind, value, roots, blocked]; kind "none" before the call
    config,    \* the server configuration, read once at start
    request,   \* the tool call last handled: [tool, args]
    events,    \* what its handler did, in order: policy checks and effects
    response,  \* the tool result it returned: [isError, kind, detail]
    ssh,       \* the SshRunner: its password setting, sshpass cache and call in progress,
               \* with, for each attempt, whether the device ran the command or copy
    shared,    \* the objects policy calls share: the two rule tables and the lists passed
    inflight   \* the policy calls made by concurrent requests: [call, out] each

pvars == <<call, out>>
dvars == <<config, request, events, response>>
cvars == <<shared, inflight>>
xvars == <<ssh, shared, inflight>>
vars == <<call, out, config, request, events, response, ssh, shared, inflight>>

(***************************************************************************)
(* Strings                                                                 *)
(***************************************************************************)

\* The characters of a string literal, as a sequence.
Str(s) == [i \in 1..Len(s) |-> SubSeq(s, i, i)]

\* String.prototype.startsWith
startsWith(s, prefix) ==
    /\ Len(prefix) <= Len(s)
    /\ SubSeq(s, 1, Len(prefix)) = prefix

\* Array.prototype.join
RECURSIVE JoinFrom(_, _, _, _)
JoinFrom(list, sep, i, acc) ==
    IF i > Len(list) THEN acc
    ELSE JoinFrom(list, sep, i + 1,
                  IF i = 1 THEN list[i] ELSE acc \o sep \o list[i])

join(list, sep) == JoinFrom(list, sep, 1, <<>>)

\* The segments of a path between its "/" separators (empty segments kept).
RECURSIVE SegmentsFrom(_, _, _, _)
SegmentsFrom(s, i, cur, acc) ==
    IF i > Len(s) THEN Append(acc, cur)
    ELSE IF s[i] = "/" THEN SegmentsFrom(s, i + 1, <<>>, Append(acc, cur))
    ELSE SegmentsFrom(s, i + 1, Append(cur, s[i]), acc)

Segments(s) == SegmentsFrom(s, 1, <<>>, <<>>)

DotDot == <<".", ".">>

\* Node's normalizeString: drops "" and "." segments; ".." removes the
\* segment before it, or is kept when there is none and allowAboveRoot.
RECURSIVE NormalizeFrom(_, _, _, _)
NormalizeFrom(segs, i, allowAboveRoot, res) ==
    IF i > Len(segs) THEN res
    ELSE IF segs[i] = <<>> \/ segs[i] = <<".">>
    THEN NormalizeFrom(segs, i + 1, allowAboveRoot, res)
    ELSE IF segs[i] = DotDot
    THEN IF Len(res) > 0 /\ res[Len(res)] # DotDot
         THEN NormalizeFrom(segs, i + 1, allowAboveRoot, SubSeq(res, 1, Len(res) - 1))
         ELSE IF allowAboveRoot
         THEN NormalizeFrom(segs, i + 1, allowAboveRoot, Append(res, DotDot))
         ELSE NormalizeFrom(segs, i + 1, allowAboveRoot, res)
    ELSE NormalizeFrom(segs, i + 1, allowAboveRoot, Append(res, segs[i]))

normalizeString(p, allowAboveRoot) ==
    join(NormalizeFrom(Segments(p), 1, allowAboveRoot, <<>>), <<"/">>)

\* path.posix.normalize that drops a trailing separator.
posixNormalize_NoTrailing(p) ==
    IF Len(p) = 0 THEN <<".">>
    ELSE LET isAbsolute == p[1] = "/"
             body == normalizeString(p, ~isAbsolute)
         IN  IF Len(body) = 0
             THEN IF isAbsolute THEN <<"/">> ELSE <<".">>
             ELSE (IF isAbsolute THEN <<"/">> ELSE <<>>) \o body

\* path.posix.normalize
posixNormalize(p) ==
    IF Len(p) = 0 THEN <<".">>
    ELSE LET isAbsolute == p[1] = "/"
             trailingSeparator == p[Len(p)] = "/"
             body == normalizeString(p, ~isAbsolute)
         IN  IF Len(body) = 0
             THEN IF isAbsolute THEN <<"/">>
                  ELSE IF trailingSeparator THEN <<".", "/">> ELSE <<".">>
             ELSE (IF isAbsolute THEN <<"/">> ELSE <<>>) \o body
                  \o (IF trailingSeparator THEN <<"/">> ELSE <<>>)

\* path.resolve on a POSIX host whose working directory is dir: the result is
\* absolute, normalized, and without a trailing separator.
pathResolve(p, dir) ==
    LET full == IF Len(p) > 0 /\ p[1] = "/" THEN p
                ELSE IF Len(p) = 0 THEN dir
                ELSE dir \o <<"/">> \o p
    IN  <<"/">> \o normalizeString(full, FALSE)

(***************************************************************************)
(* security.ts: path normalizer and allowlist enforcer                     *)
(***************************************************************************)

NoValue == <<>>

Ok(v) == [kind |-> "ok", value |-> v, roots |-> NoValue, blocked |-> NoValue]

Thrown(k, rs, b) == [kind |-> k, value |-> NoValue, roots |-> rs, blocked |-> b]

\* normalizeRemotePath returning the path as given, unresolved.
normalizeRemotePath_Unresolved(value) ==
    IF ~startsWith(value, <<"/">>)
    THEN Thrown("InvalidPath", NoValue, value)
    ELSE Ok(value)

normalizeRemotePath(value) ==
    IF ~startsWith(value, <<"/">>)
    THEN Thrown("InvalidPath", NoValue, value)
    ELSE Ok(posixNormalize(value))

normalizeLocalPath(value, dir) == pathResolve(value, dir)

\* pathWithinRoots with a bare string-prefix test.
pathWithinRoots_BarePrefix(target, allowedRoots) ==
    \E i \in 1..Len(allowedRoots) :
        startsWith(target, posixNormalize(allowedRoots[i]))

pathWithinRoots(target, allowedRoots) ==
    \E i \in 1..Len(allowedRoots) :
        LET normalizedRoot == posixNormalize(allowedRoots[i])
        IN  \/ target = normalizedRoot
            \/ startsWith(target, normalizedRoot \o <<"/">>)

localPathWithinRoots(target, allowedRoots, dir) ==
    \E i \in 1..Len(allowedRoots) :
        LET normalizedRoot == pathResolve(allowedRoots[i], dir)
        IN  \/ target = normalizedRoot
            \/ startsWith(target, normalizedRoot \o <<"/">>)

\* paths.map(normalizeRemotePath): the first relative path throws.
RECURSIVE MapNormalizeFrom(_, _, _)
MapNormalizeFrom(ps, i, acc) ==
    IF i > Len(ps) THEN Ok(acc)
    ELSE LET r == normalizeRemotePath(ps[i])
         IN  IF r.kind # "ok" THEN r
             ELSE MapNormalizeFrom(ps, i + 1, Append(acc, r.value))

\* Array.prototype.filter
RECURSIVE FilterDeniedFrom(_, _, _, _)
FilterDeniedFrom(ps, allowedRoots, i, acc) ==
    IF i > Len(ps) THEN acc
    ELSE FilterDeniedFrom(ps, allowedRoots, i + 1,
             IF ~pathWithinRoots(ps[i], allowedRoots) THEN Append(acc, ps[i]) ELSE acc)

CommaSpace == <<",", " ">>

\* ensureAllowedWritePaths reporting only the first denied path.
ensureAllowedWritePaths_FirstDenied(ps, allowedRoots) ==
    LET normalized == MapNormalizeFrom(ps, 1, <<>>)
    IN  IF normalized.kind # "ok" THEN normalized
        ELSE LET denied == FilterDeniedFrom(normalized.value, allowedRoots, 1, <<>>)
             IN  IF Len(denied) > 0
                 THEN Thrown("WritePathBlocked", join(allowedRoots, CommaSpace),
                             denied[1])
                 ELSE normalized

ensureAllowedWritePaths(ps, allowedRoots) ==
    LET normalized == MapNormalizeFrom(ps, 1, <<>>)
    IN  IF normalized.kind # "ok" THEN normalized
        ELSE LET denied == FilterDeniedFrom(normalized.value, allowedRoots, 1, <<>>)
             IN  IF Len(denied) > 0
                 THEN Thrown("WritePathBlocked", join(allowedRoots, CommaSpace),
                             join(denied, CommaSpace))
                 ELSE normalized

ensureAllowedLocalPath(pathname, allowedRoots, dir) ==
    LET normalized == normalizeLocalPath(pathname, dir)
    IN  IF ~localPathWithinRoots(normalized, allowedRoots, dir)
        THEN Thrown("LocalPathBlocked", join(allowedRoots, CommaSpace), normalized)
        ELSE Ok(normalized)

(***************************************************************************)
(* security.ts: denylist and write-intent classifier.  A regular           *)
(* expression is modelled by the matcher it denotes, flags included.       *)
(***************************************************************************)

UpperLetters == Str("ABCDEFGHIJKLMNOPQRSTUVWXYZ")
LowerLetters == Str("abcdefghijklmnopqrstuvwxyz")
Digits == {"0", "1", "2", "3", "4", "5", "6", "7", "8", "9"}

LowerOf == [c \in {UpperLetters[k] : k \in 1..26} |->
               LowerLetters[CHOOSE k \in 1..26 : UpperLetters[k] = c]]

\* Case folding of the i flag.
Lower(c) == IF c \in DOMAIN LowerOf THEN LowerOf[c] ELSE c

WordChars ==
    {UpperLetters[k] : k \in 1..26} \cup {LowerLetters[k] : k \in 1..26}
    \cup Digits \cup {"_"}

\* \w
IsWordChar(c) == c \in WordChars

\* \s
IsSpace(c) == c \in {" ", "\t", "\n", "\r", "\f"}

\* \b before position i (1 .. Len(s) + 1)
WordBoundary(s, i) ==
    LET before == i > 1 /\ i - 1 <= Len(s) /\ IsWordChar(s[i - 1])
        after == i >= 1 /\ i <= Len(s) /\ IsWordChar(s[i])
    IN  before # after

\* The literal w (lower case) at position i, case-insensitively.
LitAt(s, i, w) ==
    /\ i + Len(w) - 1 <= Len(s)
    /\ \A k \in 1..Len(w) : Lower(s[i + k - 1]) = w[k]

\* The position after the longest run of \s starting at i.
RECURSIVE SpacesEnd(_, _)
SpacesEnd(s, i) == IF i <= Len(s) /\ IsSpace(s[i]) THEN SpacesEnd(s, i + 1) ELSE i

\* The position after the longest run of \d starting at i.
RECURSIVE DigitsEnd(_, _)
DigitsEnd(s, i) == IF i <= Len(s) /\ s[i] \in Digits THEN DigitsEnd(s, i + 1) ELSE i

\* \s+ at i followed by the literal w; the position after w, or 0.
SpacesThenLit(s, i, w) ==
    LET j == SpacesEnd(s, i)
    IN  IF j > i /\ LitAt(s, j, w) THEN j + Len(w) ELSE 0

Positions(s) == 1..(Len(s) + 1)

\* /\bW\b/i for some word W of ws
WordOf(s, ws) ==
    \E i \in Positions(s) :
        /\ WordBoundary(s, i)
        /\ \E w \in ws : LitAt(s, i, Str(w)) /\ WordBoundary(s, i + Len(w))

\* /\bHEAD\s+(T1|T2|...)\b/i
WordThenWordOf(s, head, ts) ==
    \E i \in Positions(s) :
        /\ WordBoundary(s, i)
        /\ LitAt(s, i, Str(head))
        /\ \E w \in ts :
               LET e == SpacesThenLit(s, i + Len(head), Str(w))
               IN  e > 0 /\ WordBoundary(s, e)

\* /\brm\s+-rf\s+\/(\s|$)/i
RmRfRoot(s) ==
    \E i \in Positions(s) :
        /\ WordBoundary(s, i)
        /\ LitAt(s, i, Str("rm"))
        /\ LET e1 == SpacesThenLit(s, i + 2, Str("-rf"))
               e2 == IF e1 > 0 THEN SpacesThenLit(s, e1, Str("/")) ELSE 0
           IN  e2 > 0 /\ (e2 = Len(s) + 1 \/ IsSpace(s[e2]))

\* /\bdd\s+if=/i
DdIf(s) ==
    \E i \in Positions(s) :
        /\ WordBoundary(s, i)
        /\ LitAt(s, i, Str("dd"))
        /\ SpacesThenLit(s, i + 2, Str("if=")) > 0

\* /\bapt(-get)?\s+(T1|T2|...)\b/i
AptThenWordOf(s, ts) ==
    \E i \in Positions(s) :
        /\ WordBoundary(s, i)
        /\ LitAt(s, i, Str("apt"))
        /\ \E w \in ts :
               LET j == IF LitAt(s, i + 3, Str("-get")) THEN i + 7 ELSE i + 3
                   e == SpacesThenLit(s, j, Str(w))
               IN  e > 0 /\ WordBoundary(s, e)

\* /\bchflags\s+-R\s+uchg\b/i
ChflagsRecursive(s) ==
    \E i \in Positions(s) :
        /\ WordBoundary(s, i)
        /\ LitAt(s, i, Str("chflags"))
        /\ LET e1 == SpacesThenLit(s, i + 7, Str("-r"))
               e2 == IF e1 > 0 THEN SpacesThenLit(s, e1, Str("uchg")) ELSE 0
           IN  e2 > 0 /\ WordBoundary(s, e2)

\* /\bpython\d*(\.\d+)?\s+-m\s+pip\s+install\b/i
PipInstall(s) ==
    \E i \in Positions(s) :
        /\ WordBoundary(s, i)
        /\ LitAt(s, i, Str("python"))
        /\ LET d1 == DigitsEnd(s, i + 6)
               d2 == IF LitAt(s, d1, <<".">>) /\ DigitsEnd(s, d1 + 1) > d1 + 1
                     THEN DigitsEnd(s, d1 + 1) ELSE d1
               e1 == SpacesThenLit(s, d2, Str("-m"))
               e2 == IF e1 > 0 THEN SpacesThenLit(s, e1, Str("pip")) ELSE 0
               e3 == IF e2 > 0 THEN SpacesThenLit(s, e2, Str("install")) ELSE 0
           IN  e3 > 0 /\ WordBoundary(s, e3)

\* RegExp.prototype.test for the patterns of the two tables.
RegexTest(regex, s) ==
    CASE regex = "rm-rf-root" -> RmRfRoot(s)
      [] regex = "mkfs" -> WordOf(s, {"mkfs"})
      [] regex = "dd-if" -> DdIf(s)
      [] regex = "shutdown" -> WordOf(s, {"shutdown"})
      [] regex = "reboot" -> WordOf(s, {"reboot"})
      [] regex = "halt" -> WordOf(s, {"halt"})
      [] regex = "launchctl" -> WordThenWordOf(s, "launchctl", {"bootout", "remove"})
      [] regex = "apt-remove" -> AptThenWordOf(s, {"remove", "purge"})
      [] regex = "chflags" -> ChflagsRecursive(s)
      [] regex = "write-verb" ->
            WordOf(s, {"touch", "mkdir", "rmdir", "mv", "cp", "rm", "ln", "install",
                       "tee", "truncate", "chmod", "chown", "chgrp"})
      [] regex = "sed-i" -> WordThenWordOf(s, "sed", {"-i"})
      [] regex = "perl-i" -> WordThenWordOf(s, "perl", {"-i"})
      [] regex = "pip-install" -> PipInstall(s)
      [] regex = "apt-install" -> AptThenWordOf(s, {"install"})

DenyPattern(regex, reason) == [regex |-> regex, reason |-> reason]

DENY_PATTERNS ==
    << DenyPattern("rm-rf-root", "Refuses full filesystem deletion (rm -rf /)."),
       DenyPattern("mkfs", "Refuses filesystem formatting command."),
       DenyPattern("dd-if", "Refuses raw disk overwrite command."),
       DenyPattern("shutdown", "Refuses remote shutdown command."),
       DenyPattern("reboot", "Refuses remote reboot command."),
       DenyPattern("halt", "Refuses remote halt command."),
       DenyPattern("launchctl", "Refuses launchctl destructive operation."),
       DenyPattern("apt-remove", "Refuses package removal command."),
       DenyPattern("chflags", "Refuses recursive immutable flag write.") >>

WRITE_COMMAND_PATTERNS ==
    << "write-verb", "sed-i", "perl-i", "pip-install", "apt-install" >>

Null == DenyPattern("null", "")

\* for (const pattern of patterns) { if (pattern.regex.test(command)) return pattern; }
RECURSIVE MatchFrom(_, _, _)
MatchFrom(command, patterns, k) ==
    IF k > Len(patterns) THEN Null
    ELSE IF RegexTest(patterns[k].regex, command) THEN patterns[k]
    ELSE MatchFrom(command, patterns, k + 1)

\* The loop keeping the last rule that matches instead of returning the first.
RECURSIVE LastMatchFrom(_, _, _, _)
LastMatchFrom(command, patterns, k, found) ==
    IF k > Len(patterns) THEN found
    ELSE LastMatchFrom(command, patterns, k + 1,
             IF RegexTest(patterns[k].regex, command) THEN patterns[k] ELSE found)

matchDeniedPattern_LastMatch(command, patterns) ==
    LastMatchFrom(command, patterns, 1, Null)

matchDeniedPattern(command, patterns) == MatchFrom(command, patterns, 1)

isLikelyWriteCommand(command) ==
    \E k \in 1..Len(WRITE_COMMAND_PATTERNS) :
        RegexTest(WRITE_COMMAND_PATTERNS[k], command)

\* The character U+0060, which a TLA+ string cannot hold.
Backquote == "U+0060"

\* shellQuote: value.replace(/'/g, "'\\''") between single quotes.
RECURSIVE ReplaceQuotesFrom(_, _, _)
ReplaceQuotesFrom(value, i, acc) ==
    IF i > Len(value) THEN acc
    ELSE ReplaceQuotesFrom(value, i + 1,
             IF value[i] = "'" THEN acc \o <<"'", "\\", "'", "'">>
             ELSE Append(acc, value[i]))

\* The value between single quotes, apostrophes left as they are.
shellQuote_Unescaped(value) == <<"'">> \o value \o <<"'">>

shellQuote(value) == <<"'">> \o ReplaceQuotesFrom(value, 1, <<>>) \o <<"'">>

\* [\\\s"'`$!#&*()[\]{};<>?|~:]
ScpSpecial(c) ==
    \/ IsSpace(c)
    \/ c \in {"\\", "\"", "'", Backquote, "$", "!", "#", "&", "*", "(", ")", "[", "]",
              "{", "}", ";", "<", ">", "?", "|", "~", ":"}

\* pathname.replace(/([...])/g, "\\$1")
RECURSIVE EscapeFrom(_, _, _)
EscapeFrom(pathname, i, acc) ==
    IF i > Len(pathname) THEN acc
    ELSE EscapeFrom(pathname, i + 1,
             IF ScpSpecial(pathname[i]) THEN acc \o <<"\\", pathname[i]>>
             ELSE Append(acc, pathname[i]))

\* The path between single quotes instead.
escapeScpRemotePath_Quoted(pathname) == <<"'">> \o pathname \o <<"'">>

escapeScpRemotePath(pathname) == EscapeFrom(pathname, 1, <<>>)

(***************************************************************************)
(* Inputs of the policy functions                                          *)
(***************************************************************************)

MaxLen == 5      \* longest path string enumerated exhaustively
MaxPaths == 2    \* longest list of declared write paths

PathChars == {"/", ".", "a", "b"}

\* Paths the lists of several declared write paths are made of.
SamplePaths ==
    { Str("/a"), Str("/a/b"), Str("/ab"), Str("/b"), Str("/a/../b"), Str("a/b") }

\* Root sets as a caller may pass them (the tests pass synthetic ones).
RootLists ==
    { <<Str("/a")>>, <<Str("/a"), Str("/b")>>, <<Str("/ab"), Str("/a")>>,
      <<Str("/a/b")>>, <<Str("/")>>, <<Str("/a/")>>, <<Str("/a/.")>>, <<>> }

LocalRootLists == { <<Str("/a")>>, <<Str("/a/b"), Str("/b")>>, <<Str("/")>>, <<Str("b")>> }

Cwds == { Str("/a"), Str("/") }

Call(fn, ps, rs, dir) == [fn |-> fn, paths |-> ps, roots |-> rs, cwd |-> dir]

\* The cases of test/security.test.ts and of the specification's examples.
MobileRoot == <<Str("/var/mobile")>>

ExampleCalls ==
    {Call("normalizeRemotePath", <<Str(p)>>, <<>>, <<>>) :
        p \in {"/var/mobile/../mobile/a.txt", "var/mobile/test.txt"}}
    \cup {Call("ensureAllowedWritePaths", <<Str(p)>>, MobileRoot, <<>>) :
            p \in {"/var/mobile", "/var/mobile/x", "/var/mobile2", "/var/mobil",
                   "/var/mobile/../../etc/passwd"}}
    \cup {Call("ensureAllowedWritePaths", <<Str("/var/mobile/a"), Str("/etc/passwd")>>,
               MobileRoot, <<>>)}
    \cup {Call("ensureAllowedLocalPath", <<Str(p)>>,
               <<Str("/Users/davgz/iphone-ssh-mcp")>>, Str("/Users/davgz")) :
            p \in {"/Users/davgz/iphone-ssh-mcp/artifacts/a.txt", "/tmp/b.txt"}}

\* Orderings of the denial-rule table: its rotations and their reversals.
Rotate(t, n) == [i \in 1..Len(t) |-> t[((i + n - 1) % Len(t)) + 1]]
Reverse(t) == [i \in 1..Len(t) |-> t[Len(t) + 1 - i]]

TableOrders ==
    {Rotate(DENY_PATTERNS, n) : n \in 0..(Len(DENY_PATTERNS) - 1)}
    \cup {Reverse(Rotate(DENY_PATTERNS, n)) : n \in 0..(Len(DENY_PATTERNS) - 1)}

\* Commands matched against the table: none, one or several rules match.
DenyCommands ==
    { Str("ls -la"), Str("rm -rf /"), Str("rm -rf /var/tmp/x"), Str("reboot"),
      Str("rebooting"), Str("reboot; halt"), Str("halt && shutdown -h now"),
      Str("mkfs.ext4 /dev/disk0s1; dd if=/dev/zero of=/dev/disk0"),
      Str("launchctl remove com.apple.x | apt-get purge vim"),
      Str("chflags -R uchg / ; rm -rf /"), Str("REBOOT"), Str("") }

\* A call of matchDeniedPattern; token is the dangerous token sequence the
\* command was built around, if it was.
MatchCall(command, patterns, token) ==
    [fn |-> "matchDeniedPattern", command |-> command, patterns |-> patterns,
     token |-> token]

\* The token sequences of the denial rules.
DeniedTokens ==
    { Str("rm -rf /"), Str("mkfs"), Str("dd if="), Str("shutdown"), Str("reboot"),
      Str("halt"), Str("launchctl bootout"), Str("launchctl remove"),
      Str("apt remove"), Str("apt purge"), Str("apt-get remove"),
      Str("apt-get purge"), Str("chflags -R uchg") }

Separators == { Str(";"), Str("|"), Str("&&"), Str(" ; "), Str(" | "), Str(" && ") }

UpperOf == [c \in {LowerLetters[k] : k \in 1..26} |->
               UpperLetters[CHOOSE k \in 1..26 : LowerLetters[k] = c]]

Upper(c) == IF c \in DOMAIN UpperOf THEN UpperOf[c] ELSE c

\* The letter cases a token is written in: as in the rule, in capitals, and
\* with a leading capital.
LetterCases(d) ==
    { d, [i \in 1..Len(d) |-> Upper(d[i])],
      [i \in 1..Len(d) |-> IF i = 1 THEN Upper(d[i]) ELSE Lower(d[i])] }

\* Shell text a pipeline is made of besides the token.
ShellTexts == { Str("ls"), Str("echo hi") }

MaxQuoteLen == 3   \* longest string quoted exhaustively

\* Characters a quoted string is made of: the shell's quoting and expansion
\* characters, a separator, white space and a letter.
QuoteChars == {"'", " ", "$", Backquote, ";", "\\", "\n", "a"}

QuoteExamples == { Str("abc"), Str("a'b"), Str("it's a $HOME; ls") \o <<Backquote>> }

MaxScpLen == 2   \* longest path escaped exhaustively

\* Characters a path given to scp is made of: every character of the escaped
\* class and some outside it.
ScpChars ==
    {"\\", " ", "\t", "\n", "\"", "'", Backquote, "$", "!", "#", "&", "*", "(", ")", "[",
     "]", "{", "}", ";", "<", ">", "?", "|", "~", ":", "a", "/", ".", "-", "_"}

ScpExamples == { Str("/tmp/file.deb"), Str("/tmp/my file.deb"), Str("/tmp/weird'file") }

StringCall(fn, value) == [fn |-> fn, value |-> value]

\* The calls made of the policy functions: the examples, every path string
\* of up to MaxLen characters with each root set, and every list of up to
\* MaxPaths sample paths with each root set.
PolicyCall(c) ==
    \/ c \in ExampleCalls
    \/ \E k \in 0..MaxLen : \E p \in [1..k -> PathChars] :
           \/ c = Call("normalizeRemotePath", <<p>>, <<>>, <<>>)
           \/ \E rs \in RootLists : c = Call("ensureAllowedWritePaths", <<p>>, rs, <<>>)
           \/ \E rs \in LocalRootLists, dir \in Cwds :
                  c = Call("ensureAllowedLocalPath", <<p>>, rs, dir)
    \/ \E k \in 0..MaxPaths : \E ps \in [1..k -> SamplePaths], rs \in RootLists :
           c = Call("ensureAllowedWritePaths", ps, rs, <<>>)
    \/ \E value \in QuoteExamples : c = StringCall("shellQuote", value)
    \/ \E k \in 0..MaxQuoteLen : \E value \in [1..k -> QuoteChars] :
           c = StringCall("shellQuote", value)
    \/ \E value \in ScpExamples : c = StringCall("escapeScpRemotePath", value)
    \/ \E k \in 0..MaxScpLen : \E value \in [1..k -> ScpChars] :
           c = StringCall("escapeScpRemotePath", value)
    \/ \E command \in DenyCommands, patterns \in TableOrders :
           c = MatchCall(command, patterns, <<>>)
    \/ \E d \in DeniedTokens, before \in Separators, after \in Separators,
          text \in ShellTexts :
           \E token \in LetterCases(d) :
               c = MatchCall(text \o before \o token \o after \o text,
                             DENY_PATTERNS, token)

NoOutcome == [kind |-> "none", value |-> NoValue, roots |-> NoValue, blocked |-> NoValue]

NoConfig == [allowedWriteRoots |-> <<>>, localArtifactRoots |-> <<>>, cwd |-> <<>>]
NoRequest == [tool |-> "none", args |-> <<>>]
NoResponse == [isError |-> FALSE, kind |-> "none", detail |-> <<>>]

\* No attempt made yet.
NoExecResult == [ok |-> FALSE, exitCode |-> -1, stderr |-> <<>>, authMode |-> "none"]

\* An SshRunner with no password set and no call in progress.
NoRunner ==
    [password |-> FALSE, sshpassAvailableCache |-> "null", op |-> "none",
     pc |-> "idle", attempts |-> <<>>, ran |-> <<>>, result |-> NoExecResult]

\* No module loaded and no policy call in flight.
NoShared == [DENY_PATTERNS |-> <<>>, WRITE_COMMAND_PATTERNS |-> <<>>,
             paths |-> <<>>, roots |-> <<>>]

NoPolicyCalls ==
    /\ shared = NoShared
    /\ inflight = <<>>

DispatcherIdle ==
    /\ request = NoRequest
    /\ events = <<>>
    /\ response = NoResponse

PolicyInit ==
    /\ PolicyCall(call)
    /\ out = NoOutcome
    /\ config = NoConfig
    /\ DispatcherIdle
    /\ ssh = NoRunner
    /\ NoPolicyCalls

CallNormalizeRemotePath ==
    /\ out.kind = "none"
    /\ call.fn = "normalizeRemotePath"
    /\ out' = normalizeRemotePath(call.paths[1])
    /\ UNCHANGED <<call, dvars, xvars>>

CallEnsureAllowedWritePaths ==
    /\ out.kind = "none"
    /\ call.fn = "ensureAllowedWritePaths"
    /\ out' = ensureAllowedWritePaths(call.paths, call.roots)
    /\ UNCHANGED <<call, dvars, xvars>>

CallEnsureAllowedLocalPath ==
    /\ out.kind = "none"
    /\ call.fn = "ensureAllowedLocalPath"
    /\ out' = ensureAllowedLocalPath(call.paths[1], call.roots, call.cwd)
    /\ UNCHANGED <<call, dvars, xvars>>

CallMatchDeniedPattern ==
    /\ out.kind = "none"
    /\ call.fn = "matchDeniedPattern"
    /\ out' = Ok(matchDeniedPattern(call.command, call.patterns))
    /\ UNCHANGED <<call, dvars, xvars>>

CallShellQuote ==
    /\ out.kind = "none"
    /\ call.fn = "shellQuote"
    /\ out' = Ok(shellQuote(call.value))
    /\ UNCHANGED <<call, dvars, xvars>>

CallEscapeScpRemotePath ==
    /\ out.kind = "none"
    /\ call.fn = "escapeScpRemotePath"
    /\ out' = Ok(escapeScpRemotePath(call.value))
    /\ UNCHANGED <<call, dvars, xvars>>

PolicyNext ==
    \/ CallNormalizeRemotePath
    \/ CallEnsureAllowedWritePaths
    \/ CallEnsureAllowedLocalPath
    \/ CallMatchDeniedPattern
    \/ CallShellQuote
    \/ CallEscapeScpRemotePath

PolicySpec == PolicyInit /\ [][PolicyNext]_vars

(***************************************************************************)
(* config.ts: the configured roots                                         *)
(***************************************************************************)

DEFAULT_WRITE_ROOTS ==
    << Str("/var/mobile"), Str("/private/var/mobile"), Str("/var/root"),
       Str("/private/var/root"), Str("/tmp"), Str("/private/tmp"), Str("/var/tmp"),
       Str("/private/var/tmp"), Str("/usr/local") >>

\* [...new Set(list)]: the first occurrence of each entry, in order.
RECURSIVE UniqueFrom(_, _, _)
UniqueFrom(list, i, acc) ==
    IF i > Len(list) THEN acc
    ELSE UniqueFrom(list, i + 1,
             IF \E k \in 1..Len(acc) : acc[k] = list[i] THEN acc
             ELSE Append(acc, list[i]))

normalizePathList(list) ==
    UniqueFrom([i \in 1..Len(list) |-> posixNormalize(list[i])], 1, <<>>)

\* Values of IPHONE_ALLOWED_WRITE_ROOTS after envList (the default included).
EnvWriteRoots ==
    { DEFAULT_WRITE_ROOTS,
      <<Str("/var/mobile/"), Str("/tmp/./x"), Str("/tmp/x")>>,
      <<Str("/")>> }

\* Working directories of the server process.
ServerCwds == { Str("/Users/dev/mcp") }

\* Values of IPHONE_LOCAL_ARTIFACT_ROOTS after envList; unset, it is the
\* working directory.
EnvLocalRoots(dir) ==
    { <<dir>>, <<Str("/Users/dev/mcp/artifacts"), Str("/tmp/shots/")>>, <<Str("/")>> }

Configs ==
    { [allowedWriteRoots |-> normalizePathList(w),
       localArtifactRoots |-> normalizePathList(l),
       cwd |-> dir] :
        w \in EnvWriteRoots, l \in UNION {EnvLocalRoots(d) : d \in ServerCwds},
        dir \in ServerCwds }

(***************************************************************************)
(* index.ts: the tool dispatcher.  A handler's run is recorded as the      *)
(* sequence of policy checks and effects it made, and the result returned. *)
(***************************************************************************)

Ev(name, arg) == [ev |-> name, arg |-> arg]

\* What a step of a handler hands on: the events so far, and either a value
\* or the tool result the catch block makes of a thrown error.
Pass(evs, v) == [events |-> evs, failed |-> FALSE, value |-> v]
Fail(evs, kind, detail) ==
    [events |-> evs, failed |-> TRUE,
     value |-> [isError |-> TRUE, kind |-> kind, detail |-> detail]]

\* formatError of an error thrown by the path functions.
PathError(evs, thrown) ==
    Fail(evs,
         CASE thrown.kind = "InvalidPath" -> "Expected absolute remote path"
           [] thrown.kind = "WritePathBlocked" -> "Write path blocked by allowlist"
           [] thrown.kind = "LocalPathBlocked" -> "Local path blocked",
         <<thrown.roots, thrown.blocked>>)

InvalidArguments == Fail(<<>>, "Invalid arguments", <<>>)

\* Outcomes of ssh.execRemote / copyFromRemote / copyToRemote.
ExecResults ==
    { [ok |-> TRUE, exitCode |-> 0, connectionClosed |-> FALSE],
      [ok |-> FALSE, exitCode |-> 1, connectionClosed |-> FALSE],
      [ok |-> FALSE, exitCode |-> 255, connectionClosed |-> TRUE] }

\* withExecResult
execResult(result) == [isError |-> ~result.ok, kind |-> "exec", detail |-> result]

withExecResult == [result \in ExecResults |-> execResult(result)]

textResult(kind, detail, isError) == [isError |-> isError, kind |-> kind, detail |-> detail]

\* execReadCommand without the write-intent gate.
execReadCommand_NoWriteGate(command, sshResult) ==
    LET checked == <<Ev("matchDeniedPattern", command)>>
        gate(denied) ==
            IF denied # Null
            THEN Fail(checked, "Blocked by denylist", denied.reason)
            ELSE Pass(checked \o <<Ev("ssh.execRemote", command)>>, sshResult)
    IN  gate(matchDeniedPattern(command, DENY_PATTERNS))

execReadCommand(command, sshResult) ==
    LET checked == <<Ev("matchDeniedPattern", command)>>
        classified == checked \o <<Ev("isLikelyWriteCommand", command)>>
        gate(denied) ==
            IF denied # Null
            THEN Fail(checked, "Blocked by denylist", denied.reason)
            ELSE IF isLikelyWriteCommand(command)
            THEN Fail(classified, "Write-like command blocked",
                      "Use iphone_run_write_command with write_paths.")
            ELSE Pass(classified \o <<Ev("ssh.execRemote", command)>>, sshResult)
    IN  gate(matchDeniedPattern(command, DENY_PATTERNS))

\* execWriteCommand without the denylist gate.
execWriteCommand_NoDenylist(command, writePaths, sshResult) ==
    LET enforced == <<Ev("ensureAllowedWritePaths", writePaths)>>
        enforce(allowed) ==
            IF allowed.kind # "ok"
            THEN PathError(enforced, allowed)
            ELSE Pass(enforced \o <<Ev("ssh.execRemote", command)>>, sshResult)
    IN  enforce(ensureAllowedWritePaths(writePaths, config.allowedWriteRoots))

execWriteCommand(command, writePaths, sshResult) ==
    LET checked == <<Ev("matchDeniedPattern", command)>>
        enforced == checked \o <<Ev("ensureAllowedWritePaths", writePaths)>>
        enforce(allowed) ==
            IF allowed.kind # "ok"
            THEN PathError(enforced, allowed)
            ELSE Pass(enforced \o <<Ev("ssh.execRemote", command)>>, sshResult)
        gate(denied) ==
            IF denied # Null
            THEN Fail(checked, "Blocked by denylist", denied.reason)
            ELSE enforce(ensureAllowedWritePaths(writePaths, config.allowedWriteRoots))
    IN  gate(matchDeniedPattern(command, DENY_PATTERNS))

\* The handler's return: the tool result of a thrown error, or of the value.
Finish(step, resultOf) ==
    [events |-> step.events,
     response |-> IF step.failed THEN step.value ELSE resultOf[step.value]]

\* path.posix.dirname
RECURSIVE DirnameEnd(_, _, _)
DirnameEnd(p, i, matchedSlash) ==
    IF i < 2 THEN 0
    ELSE IF p[i] = "/"
    THEN IF ~matchedSlash THEN i ELSE DirnameEnd(p, i - 1, TRUE)
    ELSE DirnameEnd(p, i - 1, FALSE)

posixDirname(p) ==
    IF Len(p) = 0 THEN <<".">>
    ELSE LET end == DirnameEnd(p, Len(p), TRUE)
         IN  IF end = 0 THEN (IF p[1] = "/" THEN <<"/">> ELSE <<".">>)
             ELSE IF p[1] = "/" /\ end = 2 THEN <<"/", "/">>
             ELSE SubSeq(p, 1, end - 1)

\* The events of two consecutive steps.
After(evs, step) == [step EXCEPT !.events = evs \o @]

Sp == <<" ">>

DeviceInfoCommand ==
    join(<< Str("echo '== uname ==' && uname -a"),
            Str("echo '== os ==' && (sysctl -n kern.osversion 2>/dev/null || true)"),
            Str("echo '== uptime ==' && uptime"),
            Str("echo '== disk ==' && df -h /"),
            Str("echo '== python ==' && (python3.14 -V 2>/dev/null || python3 -V 2>/dev/null || echo 'python3 not found')"),
            Str("echo '== pip ==' && (python3.14 -m pip --version 2>/dev/null || python3 -m pip --version 2>/dev/null || echo 'pip not found')") >>,
         Str(" ; "))

HandleGetDeviceInfo(args, sshResult) ==
    Finish(execReadCommand(DeviceInfoCommand, sshResult), withExecResult)

\* z.string().min(1)
NonEmpty(s) == Len(s) >= 1

HandleRunCommand(args, sshResult) ==
    IF ~NonEmpty(args.command)
    THEN Finish(InvalidArguments, withExecResult)
    ELSE Finish(execReadCommand(args.command, sshResult), withExecResult)

HandleRunWriteCommand(args, sshResult) ==
    IF \/ ~NonEmpty(args.command)
       \/ Len(args.write_paths) < 1
       \/ \E i \in 1..Len(args.write_paths) : ~NonEmpty(args.write_paths[i])
    THEN Finish(InvalidArguments, withExecResult)
    ELSE Finish(execWriteCommand(args.command, args.write_paths, sshResult),
                withExecResult)

ListDirCommand(remotePath, listFlags, max_entries) ==
    join(<< Str("if [ -d ") \o shellQuote(remotePath) \o Str(" ]; then"),
            Str("  ls ") \o listFlags \o Sp \o shellQuote(remotePath)
                \o Str(" | head -n ") \o max_entries,
            Str("else"),
            Str("  echo 'Directory not found: ") \o remotePath \o Str("' >&2 ; exit 2"),
            Str("fi") >>, Sp)

HandleListDir(args, sshResult) ==
    LET remotePath == normalizeRemotePath(args.path)
        normalized == <<Ev("normalizeRemotePath", args.path)>>
    IN  IF remotePath.kind # "ok"
        THEN Finish(PathError(normalized, remotePath), withExecResult)
        ELSE Finish(After(normalized,
                 execReadCommand(
                     ListDirCommand(remotePath.value,
                                    IF args.show_hidden THEN Str("-la") ELSE Str("-l"),
                                    args.max_entries),
                     sshResult)), withExecResult)

ReadFileCommand(remotePath, encoding, max_bytes) ==
    IF encoding = "base64"
    THEN Str("if [ -f ") \o shellQuote(remotePath) \o Str(" ]; then base64 < ")
         \o shellQuote(remotePath)
         \o Str(" | tr -d '\\n'; else echo 'File not found: ") \o remotePath
         \o Str("' >&2; exit 2; fi")
    ELSE Str("if [ -f ") \o shellQuote(remotePath) \o Str(" ]; then head -c ")
         \o max_bytes \o Sp \o shellQuote(remotePath)
         \o Str("; else echo 'File not found: ") \o remotePath
         \o Str("' >&2; exit 2; fi")

HandleReadFile(args, sshResult) ==
    LET remotePath == normalizeRemotePath(args.path)
        normalized == <<Ev("normalizeRemotePath", args.path)>>
        fileResult(result) ==
            IF ~result.ok THEN withExecResult[result]
            ELSE textResult("file", <<remotePath.value, args.encoding>>, FALSE)
    IN  IF ~NonEmpty(args.path)
        THEN Finish(InvalidArguments, withExecResult)
        ELSE IF remotePath.kind # "ok"
        THEN Finish(PathError(normalized, remotePath), withExecResult)
        ELSE Finish(After(normalized,
                 execReadCommand(
                     ReadFileCommand(remotePath.value, args.encoding, args.max_bytes),
                     sshResult)),
                    [result \in ExecResults |-> fileResult(result)])

WriteFileCommand(remotePath, content, mode) ==
    Str("mkdir -p ") \o shellQuote(posixDirname(remotePath)) \o Str(" && ")
    \o Str("printf '%s' ") \o shellQuote(content) \o Str(" > ")
    \o shellQuote(remotePath) \o Str(" && ")
    \o Str("chmod ") \o mode \o Sp \o shellQuote(remotePath)

\* /^[0-7]{3,4}$/
IsMode(mode) ==
    /\ Len(mode) \in {3, 4}
    /\ \A i \in 1..Len(mode) : mode[i] \in {"0", "1", "2", "3", "4", "5", "6", "7"}

HandleWriteFile(args, sshResult) ==
    LET remotePath == normalizeRemotePath(args.path)
        normalized == <<Ev("normalizeRemotePath", args.path)>>
        allowed == ensureAllowedWritePaths(<<remotePath.value>>, config.allowedWriteRoots)
        enforced == normalized \o <<Ev("ensureAllowedWritePaths", <<remotePath.value>>)>>
    IN  IF ~NonEmpty(args.path) \/ ~IsMode(args.mode)
        THEN Finish(InvalidArguments, withExecResult)
        ELSE IF remotePath.kind # "ok"
        THEN Finish(PathError(normalized, remotePath), withExecResult)
        ELSE IF allowed.kind # "ok"
        THEN Finish(PathError(enforced, allowed), withExecResult)
        ELSE Finish(After(enforced,
                 execWriteCommand(
                     WriteFileCommand(remotePath.value, args.content, args.mode),
                     <<remotePath.value>>, sshResult)), withExecResult)

HandlePullFile(args, sshResult) ==
    LET remotePath == normalizeRemotePath(args.remote_path)
        normalized == <<Ev("normalizeRemotePath", args.remote_path)>>
        localPath == ensureAllowedLocalPath(args.local_path, config.localArtifactRoots,
                                            config.cwd)
        enforced == normalized \o <<Ev("ensureAllowedLocalPath", args.local_path)>>
        copyResult(result) ==
            textResult(IF result.ok THEN "Pulled" ELSE "Failed pulling",
                       <<remotePath.value, localPath.value>>, ~result.ok)
    IN  IF ~NonEmpty(args.remote_path) \/ ~NonEmpty(args.local_path)
        THEN Finish(InvalidArguments, withExecResult)
        ELSE IF remotePath.kind # "ok"
        THEN Finish(PathError(normalized, remotePath), withExecResult)
        ELSE IF localPath.kind # "ok"
        THEN Finish(PathError(enforced, localPath), withExecResult)
        ELSE Finish(Pass(enforced \o
                         << Ev("fs.mkdir", posixDirname(localPath.value)),
                            Ev("ssh.copyFromRemote", <<remotePath.value, localPath.value>>) >>,
                         sshResult),
                    [result \in ExecResults |-> copyResult(result)])

\* iphone_push_file without the write allowlist check.
HandlePushFile_NoAllowlist(args, localExists, sshResult) ==
    LET localPath == pathResolve(args.local_path, config.cwd)
        remotePath == normalizeRemotePath(args.remote_path)
        normalized == <<Ev("normalizeRemotePath", args.remote_path)>>
        accessed == normalized \o <<Ev("fs.access", localPath)>>
        copyResult(result) ==
            textResult(IF result.ok THEN "Pushed" ELSE "Failed pushing",
                       <<localPath, remotePath.value>>, ~result.ok)
    IN  IF ~NonEmpty(args.remote_path) \/ ~NonEmpty(args.local_path)
        THEN Finish(InvalidArguments, withExecResult)
        ELSE IF remotePath.kind # "ok"
        THEN Finish(PathError(normalized, remotePath), withExecResult)
        ELSE IF ~localExists
        THEN Finish(Fail(accessed, "ENOENT", localPath), withExecResult)
        ELSE Finish(Pass(accessed \o
                         <<Ev("ssh.copyToRemote", <<localPath, remotePath.value>>)>>,
                         sshResult),
                    [result \in ExecResults |-> copyResult(result)])

HandlePushFile(args, localExists, sshResult) ==
    LET localPath == pathResolve(args.local_path, config.cwd)
        remotePath == normalizeRemotePath(args.remote_path)
        normalized == <<Ev("normalizeRemotePath", args.remote_path)>>
        allowed == ensureAllowedWritePaths(<<remotePath.value>>, config.allowedWriteRoots)
        enforced == normalized \o <<Ev("ensureAllowedWritePaths", <<remotePath.value>>)>>
        accessed == enforced \o <<Ev("fs.access", localPath)>>
        copyResult(result) ==
            textResult(IF result.ok THEN "Pushed" ELSE "Failed pushing",
                       <<localPath, remotePath.value>>, ~result.ok)
    IN  IF ~NonEmpty(args.remote_path) \/ ~NonEmpty(args.local_path)
        THEN Finish(InvalidArguments, withExecResult)
        ELSE IF remotePath.kind # "ok"
        THEN Finish(PathError(normalized, remotePath), withExecResult)
        ELSE IF allowed.kind # "ok"
        THEN Finish(PathError(enforced, allowed), withExecResult)
        ELSE IF ~localExists
        THEN Finish(Fail(accessed, "ENOENT", localPath), withExecResult)
        ELSE Finish(Pass(accessed \o
                         <<Ev("ssh.copyToRemote", <<localPath, remotePath.value>>)>>,
                         sshResult),
                    [result \in ExecResults |-> copyResult(result)])

\* The filter of iphone_get_logs and the save_path of iphone_take_screenshot
\* are optional.
Absent == <<"absent">>

LogsCommand(filter, lines, minutes) ==
    LET base == Str("(log show --last ") \o minutes
                \o Str("m --style compact 2>/dev/null || tail -n ") \o lines
                \o Str(" /var/log/syslog 2>/dev/null || echo 'No log source available')")
        filtered == IF filter # Absent /\ Len(filter) > 0
                    THEN base \o Str(" | grep -i -- ") \o shellQuote(filter)
                    ELSE base
    IN  filtered \o Str(" | tail -n ") \o lines

HandleGetLogs(args, sshResult) ==
    Finish(execReadCommand(LogsCommand(args.filter, args.lines, args.minutes), sshResult),
           withExecResult)

CrashLogsCommand(app_name, lines) ==
    join(<< Str("find /var/mobile/Library/Logs/CrashReporter -type f 2>/dev/null"),
            Str("| grep -i -- ") \o shellQuote(app_name),
            Str("| head -n 5"),
            Str("| while read -r f; do"),
            Str("echo \"== $f ==\";"),
            Str("tail -n ") \o lines \o Str(" \"$f\";"),
            Str("echo;"),
            Str("done") >>, Sp)

HandleGetCrashLogs(args, sshResult) ==
    IF ~NonEmpty(args.app_name)
    THEN Finish(InvalidArguments, withExecResult)
    ELSE Finish(execReadCommand(CrashLogsCommand(args.app_name, args.lines), sshResult),
                withExecResult)

RespringCommand == Str("killall -9 SpringBoard")

\* iphone_respring sending the command whatever confirm is.
HandleRespring_Unconfirmed(args, sshResult) ==
    Finish(Pass(<<Ev("ssh.execRemote", RespringCommand)>>, sshResult), withExecResult)

HandleRespring(args, sshResult) ==
    LET respringResult(result) ==
            IF ~result.ok /\ result.connectionClosed /\ result.exitCode = 255
            THEN textResult("Respring command likely executed", <<>>, FALSE)
            ELSE withExecResult[result]
        \* confirm: z.boolean().default(false)
        confirm == IF "confirm" \in DOMAIN args THEN args.confirm ELSE FALSE
    IN  IF ~confirm
        THEN [events |-> <<>>,
              response |-> textResult("Refused: set confirm=true", <<>>, TRUE)]
        ELSE Finish(Pass(<<Ev("ssh.execRemote", RespringCommand)>>, sshResult),
                    [result \in ExecResults |-> respringResult(result)])

\* What the tweak's endpoint answered.
TweakResponses == {"failed", "no image", "image"}

HandleTweakStatus(args, tweakResponse) ==
    [events |-> <<Ev("tweak.request", Str("/status"))>>,
     response |-> IF tweakResponse = "failed"
                  THEN textResult("Tweak status request failed", <<>>, TRUE)
                  ELSE textResult("status", <<>>, FALSE)]

HandleTweakRequest(args, tweakResponse) ==
    IF ~NonEmpty(args.endpoint)
    THEN Finish(InvalidArguments, withExecResult)
    ELSE IF ~startsWith(args.endpoint, <<"/">>)
    THEN [events |-> <<>>,
          response |-> textResult("Endpoint must start with '/'.", <<>>, TRUE)]
    ELSE [events |-> <<Ev("tweak.request", args.endpoint)>>,
          response |-> IF tweakResponse = "failed"
                       THEN textResult("Tweak request failed", args.endpoint, TRUE)
                       ELSE textResult("status", <<>>, FALSE)]

HandleTakeScreenshot(args, tweakResponse) ==
    LET requested == <<Ev("tweak.request", Str("/screenshot"))>>
        localPath == ensureAllowedLocalPath(args.save_path, config.localArtifactRoots,
                                            config.cwd)
        enforced == requested \o <<Ev("ensureAllowedLocalPath", args.save_path)>>
    IN  IF tweakResponse = "failed"
        THEN [events |-> requested,
              response |-> textResult("Screenshot request failed", <<>>, TRUE)]
        ELSE IF tweakResponse = "no image"
        THEN [events |-> requested,
              response |-> textResult("Screenshot endpoint did not return image payload",
                                      <<>>, TRUE)]
        ELSE IF args.save_path # Absent /\ Len(args.save_path) > 0
        THEN IF localPath.kind # "ok"
             THEN Finish(PathError(enforced, localPath), withExecResult)
             ELSE [events |-> enforced \o
                              << Ev("fs.mkdir", posixDirname(localPath.value)),
                                 Ev("fs.writeFile", localPath.value) >>,
                   response |-> textResult("Screenshot saved", localPath.value, FALSE)]
        ELSE [events |-> requested,
              response |-> textResult("Screenshot captured", <<>>, FALSE)]

(***************************************************************************)
(* Tool calls                                                              *)
(***************************************************************************)

MaxWritePaths == 2   \* longest write_paths list of a tool call

Commands ==
    { Str("ls -la /var/mobile"), Str("tail -n 200 /var/log/syslog"),
      Str("mkdir -p /var/mobile/test"), Str("rm -rf /"), Str("reboot"),
      Str("echo hi; REBOOT now"), Str("python3.14 -m pip install requests"),
      Str("echo x > /etc/hosts"), Str("apt-get remove vim"),
      Str("cat /tmp/a | tee /tmp/b"), Str("") }

RemotePaths ==
    { Str("/var/mobile/test"), Str("/var/mobile"), Str("/etc/passwd"),
      Str("/var/mobile/../../etc/passwd"), Str("/var/mobile2/x"), Str("/tmp/x"),
      Str("tmp/x"), Str("") }

\* The paths a caller declares in write_paths.
DeclaredPaths ==
    { Str("/var/mobile/test"), Str("/etc/passwd"), Str("/var/mobile/../../etc/passwd"),
      Str("/tmp/x"), Str("tmp/x"), Str("") }

DirPaths ==
    { Str("/var/mobile"), Str("/var/mobile/cp"), Str("/tmp/reboot"), Str("/tmp/it's"),
      Str("/tmp/a';id;'"),
      Str("/var/../etc/"), Str("var/mobile"), Str("") }

Contents == { Str("hello"), Str("reboot"), Str("it's"), Str("") }

Modes == { Str("0644"), Str("755"), Str("rwx") }

LocalPaths ==
    { Str("artifacts/a.txt"), Str("/Users/dev/mcp/artifacts/a.txt"), Str("/tmp/b.txt"),
      Str("../x.txt"), Str("/Users/dev/mcp2/a.txt"), Str("/tmp/shots/s.png"), Str("") }

Filters == { Absent, Str(""), Str("SpringBoard"), Str("x'; reboot; '"), Str("mkdir") }

Numerals == { Str("200") }

\* Arguments of iphone_respring: confirm given, or left out.
RespringArgs == { [confirm |-> TRUE], [confirm |-> FALSE], [timeout_sec |-> Str("20")] }

Endpoints == { Str("/status"), Str("/screenshot"), Str("status"), Str("") }

NoCall == Call("none", <<>>, <<>>, <<>>)

Init ==
    /\ config \in Configs
    /\ DispatcherIdle
    /\ call = NoCall
    /\ out = NoOutcome
    /\ ssh = NoRunner
    /\ NoPolicyCalls

\* A CallTool request, taken when the server awaits one.
Request(tool, args) == [tool |-> tool, args |-> args]

GetDeviceInfo ==
    /\ request = NoRequest
    /\ \E sshResult \in ExecResults :
           \E handled \in {HandleGetDeviceInfo(<<>>, sshResult)} :
               /\ request' = Request("iphone_get_device_info", <<>>)
               /\ events' = handled.events
               /\ response' = handled.response
               /\ UNCHANGED <<config, pvars, xvars>>

RunCommand ==
    /\ request = NoRequest
    /\ \E command \in Commands, sshResult \in ExecResults :
           LET args == [command |-> command]
           IN  \E handled \in {HandleRunCommand(args, sshResult)} :
                   /\ request' = Request("iphone_run_command", args)
                   /\ events' = handled.events
                   /\ response' = handled.response
                   /\ UNCHANGED <<config, pvars, xvars>>

RunWriteCommand ==
    /\ request = NoRequest
    /\ \E command \in Commands, k \in 0..MaxWritePaths, sshResult \in ExecResults :
       \E write_paths \in [1..k -> DeclaredPaths] :
           LET args == [command |-> command, write_paths |-> write_paths]
           IN  \E handled \in {HandleRunWriteCommand(args, sshResult)} :
                   /\ request' = Request("iphone_run_write_command", args)
                   /\ events' = handled.events
                   /\ response' = handled.response
                   /\ UNCHANGED <<config, pvars, xvars>>

ListDir ==
    /\ request = NoRequest
    /\ \E path \in DirPaths, show_hidden \in BOOLEAN, max_entries \in Numerals,
          sshResult \in ExecResults :
           LET args == [path |-> path, show_hidden |-> show_hidden,
                        max_entries |-> max_entries]
           IN  \E handled \in {HandleListDir(args, sshResult)} :
                   /\ request' = Request("iphone_list_dir", args)
                   /\ events' = handled.events
                   /\ response' = handled.response
                   /\ UNCHANGED <<config, pvars, xvars>>

ReadFile ==
    /\ request = NoRequest
    /\ \E path \in DirPaths, encoding \in {"text", "base64"}, max_bytes \in Numerals,
          sshResult \in ExecResults :
           LET args == [path |-> path, encoding |-> encoding, max_bytes |-> max_bytes]
           IN  \E handled \in {HandleReadFile(args, sshResult)} :
                   /\ request' = Request("iphone_read_file", args)
                   /\ events' = handled.events
                   /\ response' = handled.response
                   /\ UNCHANGED <<config, pvars, xvars>>

WriteFile ==
    /\ request = NoRequest
    /\ \E path \in RemotePaths, content \in Contents, mode \in Modes,
          sshResult \in ExecResults :
           LET args == [path |-> path, content |-> content, mode |-> mode]
           IN  \E handled \in {HandleWriteFile(args, sshResult)} :
                   /\ request' = Request("iphone_write_file", args)
                   /\ events' = handled.events
                   /\ response' = handled.response
                   /\ UNCHANGED <<config, pvars, xvars>>

PullFile ==
    /\ request = NoRequest
    /\ \E remote_path \in RemotePaths, local_path \in LocalPaths, sshResult \in ExecResults :
           LET args == [remote_path |-> remote_path, local_path |-> local_path]
           IN  \E handled \in {HandlePullFile(args, sshResult)} :
                   /\ request' = Request("iphone_pull_file", args)
                   /\ events' = handled.events
                   /\ response' = handled.response
                   /\ UNCHANGED <<config, pvars, xvars>>

PushFile ==
    /\ request = NoRequest
    /\ \E remote_path \in RemotePaths, local_path \in LocalPaths, localExists \in BOOLEAN,
          sshResult \in ExecResults :
           LET args == [remote_path |-> remote_path, local_path |-> local_path]
           IN  \E handled \in {HandlePushFile(args, localExists, sshResult)} :
                   /\ request' = Request("iphone_push_file", args)
                   /\ events' = handled.events
                   /\ response' = handled.response
                   /\ UNCHANGED <<config, pvars, xvars>>

GetLogs ==
    /\ request = NoRequest
    /\ \E filter \in Filters, lines \in Numerals, minutes \in Numerals,
          sshResult \in ExecResults :
           LET args == [filter |-> filter, lines |-> lines, minutes |-> minutes]
           IN  \E handled \in {HandleGetLogs(args, sshResult)} :
                   /\ request' = Request("iphone_get_logs", args)
                   /\ events' = handled.events
                   /\ response' = handled.response
                   /\ UNCHANGED <<config, pvars, xvars>>

GetCrashLogs ==
    /\ request = NoRequest
    /\ \E app_name \in Filters \ {Absent}, lines \in Numerals, sshResult \in ExecResults :
           LET args == [app_name |-> app_name, lines |-> lines]
           IN  \E handled \in {HandleGetCrashLogs(args, sshResult)} :
                   /\ request' = Request("iphone_get_crash_logs", args)
                   /\ events' = handled.events
                   /\ response' = handled.response
                   /\ UNCHANGED <<config, pvars, xvars>>

Respring ==
    /\ request = NoRequest
    /\ \E args \in RespringArgs, sshResult \in ExecResults :
           \E handled \in {HandleRespring(args, sshResult)} :
               /\ request' = Request("iphone_respring", args)
               /\ events' = handled.events
               /\ response' = handled.response
               /\ UNCHANGED <<config, pvars, xvars>>

TakeScreenshot ==
    /\ request = NoRequest
    /\ \E save_path \in LocalPaths \cup {Absent}, tweakResponse \in TweakResponses :
           LET args == [save_path |-> save_path]
           IN  \E handled \in {HandleTakeScreenshot(args, tweakResponse)} :
                   /\ request' = Request("iphone_take_screenshot", args)
                   /\ events' = handled.events
                   /\ response' = handled.response
                   /\ UNCHANGED <<config, pvars, xvars>>

TweakStatus ==
    /\ request = NoRequest
    /\ \E tweakResponse \in TweakResponses :
           \E handled \in {HandleTweakStatus(<<>>, tweakResponse)} :
               /\ request' = Request("iphone_tweak_status", <<>>)
               /\ events' = handled.events
               /\ response' = handled.response
               /\ UNCHANGED <<config, pvars, xvars>>

TweakRequest ==
    /\ request = NoRequest
    /\ \E endpoint \in Endpoints, tweakResponse \in TweakResponses :
           LET args == [endpoint |-> endpoint]
           IN  \E handled \in {HandleTweakRequest(args, tweakResponse)} :
                   /\ request' = Request("iphone_tweak_request", args)
                   /\ events' = handled.events
                   /\ response' = handled.response
                   /\ UNCHANGED <<config, pvars, xvars>>

\* The result goes back to the client; the server awaits the next request.
Respond ==
    /\ request # NoRequest
    /\ request' = NoRequest
    /\ events' = <<>>
    /\ response' = NoResponse
    /\ UNCHANGED <<config, pvars, xvars>>

Next ==
    \/ GetDeviceInfo
    \/ RunCommand
    \/ RunWriteCommand
    \/ ListDir
    \/ ReadFile
    \/ WriteFile
    \/ PullFile
    \/ PushFile
    \/ GetLogs
    \/ GetCrashLogs
    \/ Respring
    \/ TakeScreenshot
    \/ TweakStatus
    \/ TweakRequest
    \/ Respond

Spec == Init /\ [][Next]_vars

(***************************************************************************)
(* ssh.ts: SshRunner.  A call makes its attempts one after the other; each *)
(* attempt is one runSshCommand or runScp, recorded in ssh.attempts.       *)
(***************************************************************************)

SshOperations == {"execRemote", "copyFromRemote", "copyToRemote"}

ProcessEnd(exitCode, stderr, ran) ==
    [exitCode |-> exitCode, stderr |-> Str(stderr), ran |-> ran]

\* What a spawned ssh or scp process can end with: ssh exits with 255 on
\* an error of its own and with the remote command's status otherwise, and
\* stderr carries ssh's messages and the remote command's alike.  ran tells
\* whether the login succeeded and the device ran the command or copy.
ProcessEnds ==
    { ProcessEnd(0, "", TRUE),
      ProcessEnd(0, "Warning: Permanently added to the list of known hosts.", TRUE),
      ProcessEnd(255, "root@10.0.0.2: Permission denied (publickey,password).", FALSE),
      ProcessEnd(255, "Received disconnect: Too many authentication failures", FALSE),
      ProcessEnd(255, "ssh: connect to host 10.0.0.2 port 22: Connection refused", FALSE),
      ProcessEnd(1, "cat: /var/x: No such file or directory", TRUE),
      ProcessEnd(1, "cat: /etc/master.passwd: Permission denied", TRUE) }

\* The result execWithOptionalSshPass makes up when sshpass is missing; no
\* process is spawned.
SshpassMissing ==
    ProcessEnd(255, "Password fallback requested but sshpass is not installed. Install sshpass or configure IPHONE_SSH_KEY_PATH.", FALSE)

\* runSshCommand, runScp: the ExecResult of one attempt.
ExecResult(batchMode, end) ==
    [ok |-> end.exitCode = 0,
     exitCode |-> end.exitCode,
     stderr |-> end.stderr,
     authMode |-> IF batchMode THEN "key" ELSE "password"]

\* /permission denied|publickey|keyboard-interactive|authentication/i
AuthFailurePattern(stderr) ==
    \E i \in 1..Len(stderr) :
        \/ LitAt(stderr, i, Str("permission denied"))
        \/ LitAt(stderr, i, Str("publickey"))
        \/ LitAt(stderr, i, Str("keyboard-interactive"))
        \/ LitAt(stderr, i, Str("authentication"))

\* A variant that retries after any failure, password configured or not.
shouldTryPassword_AnyFailure(stderr) == TRUE

shouldTryPassword(stderr) ==
    IF ~ssh.password THEN FALSE ELSE AuthFailurePattern(stderr)

\* new SshRunner(config)
SshInit ==
    /\ ssh \in { [NoRunner EXCEPT !.password = p] : p \in BOOLEAN }
    /\ NoPolicyCalls
    /\ call = NoCall
    /\ out = NoOutcome
    /\ config = NoConfig
    /\ DispatcherIdle

\* execRemote, copyFromRemote or copyToRemote is called.
SshCall ==
    /\ ssh.pc = "idle"
    /\ \E op \in SshOperations :
           ssh' = [ssh EXCEPT !.op = op, !.pc = "key", !.attempts = <<>>,
                              !.ran = <<>>, !.result = NoExecResult]
    /\ UNCHANGED <<pvars, dvars, cvars>>

\* The first attempt ends, and the call returns it or goes on.
KeyAttempt ==
    /\ ssh.pc = "key"
    /\ \E end \in ProcessEnds :
           LET keyAttempt == ExecResult(TRUE, end)
           IN  IF keyAttempt.ok \/ ~shouldTryPassword(keyAttempt.stderr)
               THEN ssh' = [ssh EXCEPT !.pc = "done",
                                       !.attempts = Append(@, keyAttempt),
                                       !.ran = Append(@, end.ran),
                                       !.result = keyAttempt]
               ELSE ssh' = [ssh EXCEPT !.pc = "password",
                                       !.attempts = Append(@, keyAttempt),
                                       !.ran = Append(@, end.ran)]
    /\ UNCHANGED <<pvars, dvars, cvars>>

\* The second attempt: execWithOptionalSshPass with batchMode false, which
\* asks hasSshpass when a password is set.
PasswordAttempt ==
    /\ ssh.pc = "password"
    /\ \E end \in ProcessEnds, installed \in BOOLEAN :
           LET direct == ~ssh.password
               cache == IF direct \/ ssh.sshpassAvailableCache # "null"
                        THEN ssh.sshpassAvailableCache
                        ELSE IF installed THEN "true" ELSE "false"
               raw == IF direct \/ cache = "true" THEN end ELSE SshpassMissing
               passwordAttempt == ExecResult(FALSE, raw)
           IN  ssh' = [ssh EXCEPT !.pc = "done",
                                  !.sshpassAvailableCache = cache,
                                  !.attempts = Append(@, passwordAttempt),
                                  !.ran = Append(@, raw.ran),
                                  !.result = passwordAttempt]
    /\ UNCHANGED <<pvars, dvars, cvars>>

\* The call returns its result to the caller.
SshReturn ==
    /\ ssh.pc = "done"
    /\ ssh' = [ssh EXCEPT !.pc = "idle"]
    /\ UNCHANGED <<pvars, dvars, cvars>>

SshNext ==
    \/ SshCall
    \/ KeyAttempt
    \/ PasswordAttempt
    \/ SshReturn

SshSpec == SshInit /\ [][SshNext]_vars

(***************************************************************************)
(* security.ts under concurrent requests.  Each request's handler calls    *)
(* the policy functions; a call runs to its end, and the calls of          *)
(* different requests come in any order.  The rule tables are the module's *)
(* two arrays of RegExp objects, each with its lastIndex; the lists are    *)
(* the arrays the callers pass.                                            *)
(***************************************************************************)

MaxCallers == 2   \* requests with a policy call in flight

\* A RegExp literal of a table, as loaded.
RegExpObject(regex) == [regex |-> regex, lastIndex |-> 0]

\* The module's tables as loaded, and the lists the callers pass.
Loaded(ps, rs) ==
    [DENY_PATTERNS |->
         [k \in DOMAIN DENY_PATTERNS |->
              [regex |-> RegExpObject(DENY_PATTERNS[k].regex),
               reason |-> DENY_PATTERNS[k].reason]],
     WRITE_COMMAND_PATTERNS |->
         [k \in DOMAIN WRITE_COMMAND_PATTERNS |->
              RegExpObject(WRITE_COMMAND_PATTERNS[k])],
     paths |-> ps,
     roots |-> rs]

\* test of a RegExp that had the g flag: the search starts at lastIndex,
\* which a match moves forward and a failure resets.
test_Global(rx, s) ==
    LET found == /\ rx.lastIndex <= Len(s)
                 /\ RegexTest(rx.regex, SubSeq(s, rx.lastIndex + 1, Len(s)))
    IN  [found |-> found,
         rx |-> [rx EXCEPT !.lastIndex = IF found THEN Len(s) ELSE 0]]

\* RegExp.prototype.test of a RegExp with the i flag alone: lastIndex is
\* neither read nor written.
test(rx, s) == [found |-> RegexTest(rx.regex, s), rx |-> rx]

\* matchDeniedPattern on the table objects: the rule returned and the table
\* as the tests leave it.
RECURSIVE MatchIn(_, _, _)
MatchIn(command, patterns, k) ==
    IF k > Len(patterns) THEN [value |-> Null, patterns |-> patterns]
    ELSE LET tested == test(patterns[k].regex, command)
             after == [patterns EXCEPT ![k].regex = tested.rx]
         IN  IF tested.found
             THEN [value |-> DenyPattern(after[k].regex.regex, after[k].reason),
                   patterns |-> after]
             ELSE MatchIn(command, after, k + 1)

\* WRITE_COMMAND_PATTERNS.some((pattern) => pattern.test(command)) on the
\* table objects.
RECURSIVE SomeIn(_, _, _)
SomeIn(command, patterns, k) ==
    IF k > Len(patterns) THEN [value |-> FALSE, patterns |-> patterns]
    ELSE LET tested == test(patterns[k], command)
             after == [patterns EXCEPT ![k] = tested.rx]
         IN  IF tested.found THEN [value |-> TRUE, patterns |-> after]
             ELSE SomeIn(command, after, k + 1)

CommandCall(fn, command) == [fn |-> fn, command |-> command]

\* The calls a request may have in flight; ensureAllowedWritePaths is given
\* the shared lists.
ConcurrentCalls(ps, rs) ==
    {StringCall("normalizeRemotePath", Str(p)) :
        p \in {"/var/mobile/../mobile/a.txt", "var/mobile/test.txt"}}
    \cup {Call("ensureAllowedWritePaths", ps, rs, <<>>)}
    \cup {CommandCall("matchDeniedPattern", Str(c)) :
             c \in {"rm -rf / ", "sudo reboot", "ls -la"}}
    \cup {CommandCall("isLikelyWriteCommand", Str(c)) :
             c \in {"touch /tmp/x; touch /tmp/y", "apt install vim", "ls -la"}}
    \cup {StringCall("shellQuote", Str("it's"))}
    \cup {StringCall("escapeScpRemotePath", Str("/tmp/a b's"))}

\* The module is loaded and every request has made its call.
SharedInit ==
    /\ \E ps \in {<<Str("/a/b"), Str("/b/../a")>>, <<Str("/b"), Str("/a")>>},
          rs \in {<<Str("/a")>>, <<Str("/b"), Str("/a/")>>} :
           /\ shared = Loaded(ps, rs)
           /\ inflight \in [1..MaxCallers ->
                               {[call |-> c, out |-> NoOutcome] :
                                   c \in ConcurrentCalls(ps, rs)}]
    /\ call = NoCall
    /\ out = NoOutcome
    /\ config = NoConfig
    /\ DispatcherIdle
    /\ ssh = NoRunner

\* Request i has the call of fn still to run.
Pending(i, fn) ==
    /\ inflight[i].out.kind = "none"
    /\ inflight[i].call.fn = fn

RunNormalizeRemotePath ==
    \E i \in DOMAIN inflight :
        /\ Pending(i, "normalizeRemotePath")
        /\ inflight' = [inflight EXCEPT
               ![i].out = normalizeRemotePath(inflight[i].call.value)]
        /\ UNCHANGED <<pvars, dvars, ssh, shared>>

\* paths.map, normalized.filter, roots.some and join each read their array.
RunEnsureAllowedWritePaths ==
    \E i \in DOMAIN inflight :
        /\ Pending(i, "ensureAllowedWritePaths")
        /\ inflight' = [inflight EXCEPT
               ![i].out = ensureAllowedWritePaths(shared.paths, shared.roots)]
        /\ UNCHANGED <<pvars, dvars, ssh, shared>>

RunMatchDeniedPattern ==
    \E i \in DOMAIN inflight :
        /\ Pending(i, "matchDeniedPattern")
        /\ \E matched \in {MatchIn(inflight[i].call.command, shared.DENY_PATTERNS, 1)} :
               /\ inflight' = [inflight EXCEPT ![i].out = Ok(matched.value)]
               /\ shared' = [shared EXCEPT !.DENY_PATTERNS = matched.patterns]
        /\ UNCHANGED <<pvars, dvars, ssh>>

RunIsLikelyWriteCommand ==
    \E i \in DOMAIN inflight :
        /\ Pending(i, "isLikelyWriteCommand")
        /\ \E some \in {SomeIn(inflight[i].call.command,
                               shared.WRITE_COMMAND_PATTERNS, 1)} :
               /\ inflight' = [inflight EXCEPT ![i].out = Ok(some.value)]
               /\ shared' = [shared EXCEPT !.WRITE_COMMAND_PATTERNS = some.patterns]
        /\ UNCHANGED <<pvars, dvars, ssh>>

\* The RegExp of value.replace is made anew by each call.
RunShellQuote ==
    \E i \in DOMAIN inflight :
        /\ Pending(i, "shellQuote")
        /\ inflight' = [inflight EXCEPT
               ![i].out = Ok(shellQuote(inflight[i].call.value))]
        /\ UNCHANGED <<pvars, dvars, ssh, shared>>

RunEscapeScpRemotePath ==
    \E i \in DOMAIN inflight :
        /\ Pending(i, "escapeScpRemotePath")
        /\ inflight' = [inflight EXCEPT
               ![i].out = Ok(escapeScpRemotePath(inflight[i].call.value))]
        /\ UNCHANGED <<pvars, dvars, ssh, shared>>

SharedNext ==
    \/ RunNormalizeRemotePath
    \/ RunEnsureAllowedWritePaths
    \/ RunMatchDeniedPattern
    \/ RunIsLikelyWriteCommand
    \/ RunShellQuote
    \/ RunEscapeScpRemotePath

SharedSpec == SharedInit /\ [][SharedNext]_vars

(***************************************************************************)
(* Properties of the path normalizer and allowlist enforcer                *)
(***************************************************************************)

Returned(fn) == call.fn = fn /\ out.kind # "none"

IsAbsolute(p) == Len(p) > 0 /\ p[1] = "/"

\* t is r itself, or r followed by a separator and more characters.
OnBoundary(t, r) ==
    \/ t = r
    \/ /\ Len(t) > Len(r)
       /\ SubSeq(t, 1, Len(r)) = r
       /\ t[Len(r) + 1] = "/"

\* The directory names of an absolute path, "." and ".." resolved.
Components(p) == NormalizeFrom(Segments(p), 1, FALSE, <<>>)

\* Directory containment: p is the directory r or lies beneath it.
Beneath(p, r) ==
    LET cp == Components(p)
        cr == Components(r)
    IN  Len(cr) <= Len(cp) /\ SubSeq(cp, 1, Len(cr)) = cr

SinglePathCall ==
    /\ Returned("ensureAllowedWritePaths")
    /\ Len(call.paths) = 1
    /\ IsAbsolute(call.paths[1])

\* C1 as stated: ensureAllowedWritePaths([p], R) succeeds iff the normalized p
\* equals some root of R as given, or begins with that root followed by "/".
C1_AsStated ==
    SinglePathCall =>
        LET t == posixNormalize(call.paths[1])
        IN  (out.kind = "ok") <=>
                \E i \in 1..Len(call.roots) : OnBoundary(t, call.roots[i])

\* C1 (amended): ensureAllowedWritePaths([p], R) succeeds iff the normalized p
\* equals the normalized form of some root of R exactly, or begins with it
\* immediately followed by "/"; a bare string prefix never counts, and the
\* test is made on the normalized path.
C1_BoundaryExact ==
    /\ SinglePathCall =>
        LET t == posixNormalize(call.paths[1])
        IN  /\ (out.kind = "ok") <=>
                   \E i \in 1..Len(call.roots) :
                       OnBoundary(t, posixNormalize(call.roots[i]))
            /\ out.kind \in {"ok", "WritePathBlocked"}
    /\ (SinglePathCall /\ call.roots = MobileRoot) =>
        /\ call.paths[1] \in {Str("/var/mobile"), Str("/var/mobile/x")} => out.kind = "ok"
        /\ call.paths[1] \in {Str("/var/mobile2"), Str("/var/mobil"),
                              Str("/var/mobile/../../etc/passwd")}
              => out.kind = "WritePathBlocked"

\* A path whose raw text starts with the root and a separator, but whose
\* normalized form leaves the root, has been blocked.
C1_Witness ==
    /\ SinglePathCall
    /\ call.roots = <<Str("/a")>>
    /\ call.paths[1] = Str("/a/..")
    /\ out.kind = "WritePathBlocked"

\* C2: for every configured root r, whatever its spelling, the directory r
\* and every absolute path beneath r are accepted by ensureAllowedWritePaths.
C2_RootAndBeneathAccepted ==
    SinglePathCall =>
        ((\E i \in 1..Len(call.roots) : Beneath(call.paths[1], call.roots[i]))
            => out.kind = "ok")

\* C3: normalizeRemotePath(p) fails with InvalidPath exactly when p does not
\* start with "/"; otherwise it returns an absolute path without "." segments,
\* ".." segments or repeated separators.
Resolved(v) ==
    /\ IsAbsolute(v)
    /\ \A i \in 1..(Len(v) - 1) : ~(v[i] = "/" /\ v[i + 1] = "/")
    /\ LET segs == Segments(v)
       IN  \A i \in 1..Len(segs) : segs[i] # <<".">> /\ segs[i] # DotDot

C3_NormalizeRemotePath ==
    Returned("normalizeRemotePath") =>
        LET p == call.paths[1]
        IN  /\ (out.kind = "InvalidPath") <=> ~IsAbsolute(p)
            /\ IsAbsolute(p) => (out.kind = "ok" /\ Resolved(out.value))
            /\ out.kind = "ok" =>
                   /\ Components(out.value) = Components(p)
                   /\ \A i \in 1..Len(Components(out.value)) :
                          \E j \in 1..Len(Segments(p)) :
                              Segments(p)[j] = Components(out.value)[i]
            /\ p = Str("/var/mobile/../mobile/a.txt")
                   => out = Ok(Str("/var/mobile/a.txt"))

C3_Witness ==
    /\ Returned("normalizeRemotePath")
    /\ call.paths[1] = Str("/a/..")
    /\ out = Ok(Str("/"))

C3_WitnessInvalid ==
    /\ Returned("normalizeRemotePath")
    /\ call.paths[1] = Str("var/mobile/test.txt")
    /\ out.kind = "InvalidPath"

\* A path in normal form: absolute, every segment a name, separators single
\* (a final separator is kept by path.posix.normalize).
IsNormalized(p) ==
    /\ Resolved(p)
    /\ p # <<"/">> => LET segs == Segments(p)
                      IN  \A i \in 2..(Len(segs) - 1) : segs[i] # <<>>

\* C4: normalizeRemotePath(normalizeRemotePath(p)) = normalizeRemotePath(p)
\* for every absolute p, and an already-normalized path is returned unchanged.
C4_NormalizeIdempotent ==
    (Returned("normalizeRemotePath") /\ out.kind = "ok") =>
        /\ normalizeRemotePath(out.value) = out
        /\ IsNormalized(call.paths[1]) => out.value = call.paths[1]

C4_Witness ==
    /\ Returned("normalizeRemotePath")
    /\ call.paths[1] = Str("/a//b")
    /\ out = Ok(Str("/a/b"))
    /\ normalizeRemotePath(out.value) = out

\* The outcome C5 describes for a list whose paths normalize to np.
AllOrNothing(np) ==
    LET denied == SelectSeq(np, LAMBDA e :
                      ~\E i \in 1..Len(call.roots) :
                           OnBoundary(e, posixNormalize(call.roots[i])))
    IN  \/ /\ denied = <<>>
           /\ out = Ok(np)
        \/ /\ denied # <<>>
           /\ out.kind = "WritePathBlocked"
           /\ out.value = NoValue
           /\ out.roots = join(call.roots, CommaSpace)
           /\ out.blocked = join(denied, CommaSpace)

\* C5 as stated: for every list of raw path strings the call either returns
\* every normalized path in input order or fails with WritePathBlocked.
C5_AsStated ==
    Returned("ensureAllowedWritePaths") =>
        AllOrNothing([i \in 1..Len(call.paths) |-> posixNormalize(call.paths[i])])

\* C5 (amended): for every list of raw path strings that all start with "/",
\* the call either returns the normalized paths, one per input, in input order,
\* or fails with WritePathBlocked carrying all configured roots and every
\* denied normalized path; a list holding a path that does not start with "/"
\* fails with InvalidPath for the first such path; no partial list is returned.
C5_AllOrNothing ==
    Returned("ensureAllowedWritePaths") =>
        LET relative == {i \in 1..Len(call.paths) : ~IsAbsolute(call.paths[i])}
        IN  IF relative = {}
            THEN AllOrNothing([i \in 1..Len(call.paths) |->
                                  posixNormalize(call.paths[i])])
            ELSE /\ out.kind = "InvalidPath"
                 /\ out.value = NoValue
                 /\ \E i \in relative :
                        /\ out.blocked = call.paths[i]
                        /\ \A j \in relative : i <= j

\* The first path is allowed, the second denied: the call failed and the
\* failure names the denied path.
C5_Witness ==
    /\ Returned("ensureAllowedWritePaths")
    /\ call.paths = <<Str("/var/mobile/a"), Str("/etc/passwd")>>
    /\ out.kind = "WritePathBlocked"
    /\ out.blocked = Str("/etc/passwd")

(***************************************************************************)
(* Properties of the tool dispatcher                                       *)
(***************************************************************************)

Handling(tool) == request.tool = tool

Did(name) == \E k \in 1..Len(events) : events[k].ev = name

Executed == Did("ssh.execRemote")

DeniedBy(command) == matchDeniedPattern(command, DENY_PATTERNS)

RefusedByDenylist(command) ==
    /\ ~Executed
    /\ response.isError
    /\ response.kind = "Blocked by denylist"
    /\ response.detail = DeniedBy(command).reason

\* The arguments of iphone_run_write_command pass its schema.
WriteArgsParsed ==
    /\ NonEmpty(request.args.command)
    /\ Len(request.args.write_paths) >= 1
    /\ \A i \in 1..Len(request.args.write_paths) : NonEmpty(request.args.write_paths[i])

\* C6: a command that matches a denial rule never reaches ssh.execRemote
\* through execReadCommand or execWriteCommand, and the request ends in a
\* "Blocked by denylist" error carrying that rule's reason, even when every
\* declared write path is inside an allowed root.
C6_DeniedNeverExecuted ==
    /\ \A k \in 1..Len(events) :
           (events[k].ev = "matchDeniedPattern" /\ DeniedBy(events[k].arg) # Null)
               => RefusedByDenylist(events[k].arg)
    /\ (Handling("iphone_run_command") /\ NonEmpty(request.args.command)
            /\ DeniedBy(request.args.command) # Null)
           => RefusedByDenylist(request.args.command)
    /\ (Handling("iphone_run_write_command") /\ WriteArgsParsed
            /\ DeniedBy(request.args.command) # Null)
           => RefusedByDenylist(request.args.command)

C6_Witness ==
    /\ Handling("iphone_run_write_command")
    /\ WriteArgsParsed
    /\ DeniedBy(request.args.command) # Null
    /\ ensureAllowedWritePaths(request.args.write_paths,
                               config.allowedWriteRoots).kind = "ok"
    /\ response.kind = "Blocked by denylist"

\* The policy checks that follow the denylist in the composition.
LaterChecks == {"isLikelyWriteCommand", "ensureAllowedWritePaths"}

\* C7: the denylist is the first gate for every command: a command sent to
\* ssh.execRemote was matched against the denial rules before any write-intent
\* or allowlist check of the request, and a request whose command matches a
\* denial rule is refused by the denylist whatever the later checks would say.
C7_DenylistFirst ==
    /\ \A k \in 1..Len(events) :
           events[k].ev = "ssh.execRemote" =>
               \E j \in 1..(k - 1) :
                   /\ events[j].ev = "matchDeniedPattern"
                   /\ events[j].arg = events[k].arg
                   /\ \A i \in 1..(j - 1) : events[i].ev \notin LaterChecks
    /\ (Handling("iphone_write_file") /\ NonEmpty(request.args.path)
            /\ IsMode(request.args.mode) /\ IsAbsolute(request.args.path)
            /\ DeniedBy(WriteFileCommand(posixNormalize(request.args.path),
                                         request.args.content,
                                         request.args.mode)) # Null)
           => response.kind = "Blocked by denylist"

ReadTools ==
    {"iphone_get_device_info", "iphone_run_command", "iphone_list_dir",
     "iphone_read_file", "iphone_get_logs", "iphone_get_crash_logs"}

NoWriteExecuted ==
    \A k \in 1..Len(events) :
        events[k].ev = "ssh.execRemote" => ~isLikelyWriteCommand(events[k].arg)

RedirectedToWriteTool ==
    /\ response.isError
    /\ response.kind = "Write-like command blocked"
    /\ response.detail = "Use iphone_run_write_command with write_paths."

\* C8 as stated: the read-only entry point never executes a command classified
\* as write-intent, and such a request fails with the error that redirects to
\* iphone_run_write_command.
C8_AsStated ==
    /\ request.tool \in ReadTools => NoWriteExecuted
    /\ (Handling("iphone_run_command") /\ NonEmpty(request.args.command)
            /\ isLikelyWriteCommand(request.args.command))
           => (~Executed /\ RedirectedToWriteTool)

\* C8 (amended): the read-only entry point never executes a command classified
\* as write-intent; such a request fails with the error that redirects to
\* iphone_run_write_command, unless the command also matches a denial rule, in
\* which case it fails with the denylist error.
C8_ReadOnlyNeverWrites ==
    /\ request.tool \in ReadTools => NoWriteExecuted
    /\ (Handling("iphone_run_command") /\ NonEmpty(request.args.command)
            /\ isLikelyWriteCommand(request.args.command))
           => IF DeniedBy(request.args.command) # Null
              THEN RefusedByDenylist(request.args.command)
              ELSE ~Executed /\ RedirectedToWriteTool
    /\ \A k \in 1..Len(events) :
           (events[k].ev = "isLikelyWriteCommand" /\ isLikelyWriteCommand(events[k].arg))
               => (~Executed /\ RedirectedToWriteTool)

C8_Witness ==
    /\ Handling("iphone_run_command")
    /\ isLikelyWriteCommand(request.args.command)
    /\ DeniedBy(request.args.command) = Null
    /\ RedirectedToWriteTool

C8_WitnessDenied ==
    /\ Handling("iphone_run_command")
    /\ isLikelyWriteCommand(request.args.command)
    /\ DeniedBy(request.args.command) # Null
    /\ response.kind = "Blocked by denylist"

\* p is absolute and lies in the directory of some allowed write root.
InsideAllowedWriteRoot(p) ==
    /\ IsAbsolute(p)
    /\ \E i \in 1..Len(config.allowedWriteRoots) :
           Beneath(p, config.allowedWriteRoots[i])

\* C9: iphone_run_write_command, iphone_write_file and iphone_push_file reach
\* the transport only after the allowlist check passed: when a command was
\* executed or a file copied to the device, every declared or target path is
\* inside some allowed write root.
C9_WriteAfterAllowlist ==
    /\ (Handling("iphone_run_write_command") /\ Executed)
           => \A i \in 1..Len(request.args.write_paths) :
                  InsideAllowedWriteRoot(request.args.write_paths[i])
    /\ (Handling("iphone_write_file") /\ Executed)
           => InsideAllowedWriteRoot(request.args.path)
    /\ (Handling("iphone_push_file") /\ Did("ssh.copyToRemote"))
           => InsideAllowedWriteRoot(request.args.remote_path)
    /\ \A k \in 1..Len(events) :
           (request.tool \in {"iphone_run_write_command", "iphone_write_file",
                              "iphone_push_file"}
                /\ events[k].ev \in {"ssh.execRemote", "ssh.copyToRemote"})
               => \E j \in 1..(k - 1) : events[j].ev = "ensureAllowedWritePaths"

C9_Witness ==
    /\ Handling("iphone_push_file")
    /\ Did("ssh.copyToRemote")
    /\ InsideAllowedWriteRoot(request.args.remote_path)

C9_WitnessOutside ==
    /\ Handling("iphone_run_write_command")
    /\ WriteArgsParsed
    /\ DeniedBy(request.args.command) = Null
    /\ InsideAllowedWriteRoot(request.args.write_paths[1])
    /\ \E i \in 1..Len(request.args.write_paths) :
           ~InsideAllowedWriteRoot(request.args.write_paths[i])
    /\ ~Executed
    /\ response.kind = "Write path blocked by allowlist"

\* C10: ensureAllowedLocalPath(path, roots) fails with LocalPathBlocked exactly
\* when the resolved path is neither a root nor beneath a root on a separator
\* boundary.
C10_LocalPathBlocked ==
    Returned("ensureAllowedLocalPath") =>
        LET t == pathResolve(call.paths[1], call.cwd)
        IN  (out.kind = "LocalPathBlocked") <=>
                ~ \E i \in 1..Len(call.roots) :
                      Beneath(t, pathResolve(call.roots[i], call.cwd))

LocalEffects == {"fs.mkdir", "fs.writeFile", "ssh.copyFromRemote"}

\* C10, the handlers' part: when the local path of iphone_pull_file or
\* iphone_take_screenshot is blocked, no directory is created, no file is
\* written and no scp is run.
C10_BlockedStopsLocalEffects ==
    /\ response.kind = "Local path blocked" =>
           \A k \in 1..Len(events) : events[k].ev \notin LocalEffects
    /\ \A k \in 1..Len(events) :
           events[k].ev \in LocalEffects =>
               \E j \in 1..(k - 1) :
                   /\ events[j].ev = "ensureAllowedLocalPath"
                   /\ ensureAllowedLocalPath(events[j].arg, config.localArtifactRoots,
                                             config.cwd).kind = "ok"

C10_WitnessBlocked ==
    /\ Handling("iphone_pull_file")
    /\ response.kind = "Local path blocked"
    /\ events # <<>>

(***************************************************************************)
(* Properties of the denylist and the write-intent classifier              *)
(***************************************************************************)

\* The indices of the rules of a table whose pattern matches the command.
Matching(command, patterns) ==
    {k \in 1..Len(patterns) : RegexTest(patterns[k].regex, command)}

Least(S) == CHOOSE k \in S : \A j \in S : k <= j

\* C11: first match wins: matchDeniedPattern returns the rule with the lowest
\* index among those whose pattern matches, null exactly when none matches,
\* and null or non-null alike for every ordering of the table.
C11_FirstMatchWins ==
    Returned("matchDeniedPattern") =>
        LET M == Matching(call.command, call.patterns)
        IN  /\ (out.value = Null) <=> (M = {})
            /\ M # {} => out.value = call.patterns[Least(M)]
            /\ (out.value = Null) <=> (Matching(call.command, DENY_PATTERNS) = {})

C11_Witness ==
    /\ Returned("matchDeniedPattern")
    /\ call.command = Str("reboot; halt")
    /\ call.patterns = Reverse(DENY_PATTERNS)
    /\ out.value.reason = "Refuses remote halt command."

\* C12: a command made by placing a denial rule's token sequence between
\* other shell text, joined by ';', '|' or '&&' with or without spaces and in
\* any letter case, is denied: matchDeniedPattern returns a rule.
C12_DeniedInPipeline ==
    (Returned("matchDeniedPattern") /\ call.token # <<>>) => out.value # Null

\* The command redirects output into a file: an unquoted '>' or '>>' whose
\* target is neither a file descriptor nor /dev/null.
RedirectsToFile(c) ==
    \E i \in 1..Len(c) :
        /\ c[i] = ">"
        /\ Cardinality({k \in 1..(i - 1) : c[k] = "'"}) % 2 = 0
        /\ LET target == SpacesEnd(c, IF i < Len(c) /\ c[i + 1] = ">" THEN i + 2 ELSE i + 1)
           IN  /\ target <= Len(c)
               /\ c[target] # "&"
               /\ ~LitAt(c, target, Str("/dev/null"))

\* The command names a verb that changes files, edits in place or installs.
NamesWriteVerb(c) ==
    \/ WordOf(c, {"touch", "mkdir", "rmdir", "mv", "cp", "rm", "ln", "install", "tee",
                  "truncate", "chmod", "chown", "chgrp"})
    \/ WordThenWordOf(c, "sed", {"-i"})
    \/ WordThenWordOf(c, "perl", {"-i"})

Mutates(c) == NamesWriteVerb(c) \/ RedirectsToFile(c)

PlainReads == { Str("ls -la /var/mobile"), Str("tail -n 200 /var/log/syslog") }

\* C13: the write-intent classifier has no false negatives on the read-only
\* path: a command that changes filesystem or package state (a write verb, an
\* in-place edit, an install, an output redirection into a file) is classified
\* as write-intent and is not executed through execReadCommand; plain reads
\* are not classified as write-intent.
C13_NoFalseNegatives ==
    (Handling("iphone_run_command") /\ NonEmpty(request.args.command)) =>
        /\ Mutates(request.args.command) =>
               (isLikelyWriteCommand(request.args.command) /\ ~Executed)
        /\ request.args.command \in PlainReads =>
               ~isLikelyWriteCommand(request.args.command)

(***************************************************************************)
(* Properties of the shell-safe encoders                                   *)
(***************************************************************************)

\* Word splitting and quote removal of the POSIX shell (XCU 2.2, 2.3): the
\* words of a command line, whether its quotes are closed, and whether any
\* part of it is open to expansion ('$' or a back quote outside single quotes).
\* Operator characters delimit words and form words of their own.
IsBlank(c) == c \in {" ", "\t", "\n"}
IsOperator(c) == c \in {";", "|", "&", "<", ">", "(", ")"}

Parsed(words, closed, expands) == [words |-> words, closed |-> closed, expands |-> expands]

\* The parser's state before the character at position i.
ParseState(i, mode, cur, inWord, acc, expands) ==
    [i |-> i, mode |-> mode, cur |-> cur, inWord |-> inWord, acc |-> acc,
     expands |-> expands]

EndWord(st) == IF st.inWord THEN Append(st.acc, st.cur) ELSE st.acc

\* One step of the parser: the character at st.i, and after a backslash the
\* one that follows it.
ParseStep(t, st) ==
    LET i == st.i
        c == t[i]
        take(n, mode, cur) == ParseState(i + n, mode, cur, TRUE, st.acc, st.expands)
    IN  IF st.mode = "single"
        THEN IF c = "'" THEN take(1, "plain", st.cur)
             ELSE take(1, "single", Append(st.cur, c))
        ELSE IF st.mode = "double"
        THEN IF c = "\"" THEN take(1, "plain", st.cur)
             ELSE IF c = "\\" /\ i < Len(t) /\ t[i + 1] \in {"$", Backquote, "\"", "\\"}
             THEN take(2, "double", Append(st.cur, t[i + 1]))
             ELSE ParseState(i + 1, "double", Append(st.cur, c), TRUE, st.acc,
                             st.expands \/ c \in {"$", Backquote})
        ELSE IF st.mode = "operator"
        THEN IF IsOperator(c) THEN take(1, "operator", Append(st.cur, c))
             ELSE ParseState(i, "plain", <<>>, FALSE, Append(st.acc, st.cur), st.expands)
        ELSE IF c = "'" THEN take(1, "single", st.cur)
        ELSE IF c = "\"" THEN take(1, "double", st.cur)
        ELSE IF c = "\\"
        THEN IF i = Len(t) THEN take(1, "plain", Append(st.cur, c))
             ELSE IF t[i + 1] = "\n"
             THEN ParseState(i + 2, "plain", st.cur, st.inWord, st.acc, st.expands)
             ELSE take(2, "plain", Append(st.cur, t[i + 1]))
        ELSE IF IsBlank(c)
        THEN ParseState(i + 1, "plain", <<>>, FALSE, EndWord(st), st.expands)
        ELSE IF IsOperator(c)
        THEN ParseState(i + 1, "operator", <<c>>, TRUE, EndWord(st), st.expands)
        ELSE ParseState(i + 1, "plain", Append(st.cur, c), TRUE, st.acc,
                        st.expands \/ c \in {"$", Backquote})

\* The steps up to position end, and the command line taken sixteen
\* characters at a time.
RECURSIVE ParseTo(_, _, _)
ParseTo(t, st, end) ==
    IF st.i > end \/ st.i > Len(t) THEN st ELSE ParseTo(t, ParseStep(t, st), end)

RECURSIVE ParseFrom(_, _)
ParseFrom(t, st) ==
    IF st.i > Len(t) THEN st ELSE ParseFrom(t, ParseTo(t, st, st.i + 15))

ShellParse(t) ==
    LET st == ParseFrom(t, ParseState(1, "plain", <<>>, FALSE, <<>>, FALSE))
    IN  Parsed(EndWord(st), st.mode \in {"plain", "operator"}, st.expands)

\* The shell reads t as the one literal word s.
ReadsAsWord(t, s) == ShellParse(t) = Parsed(<<s>>, TRUE, FALSE)

Apostrophes(s) == Cardinality({k \in 1..Len(s) : s[k] = "'"})

\* C14: shellQuote(s) is s between single quotes with each single quote
\* replaced by '\'' , and the shell reads it back as exactly the one word s,
\* whatever s holds; shellQuote("abc") = 'abc', shellQuote("a'b") = 'a'\''b'.
C14_QuoteRoundTrip ==
    Returned("shellQuote") =>
        /\ Len(out.value) = Len(call.value) + 2 + 3 * Apostrophes(call.value)
        /\ out.value[1] = "'"
        /\ out.value[Len(out.value)] = "'"
        /\ ReadsAsWord(out.value, call.value)
        /\ call.value = Str("abc") => out.value = Str("'abc'")
        /\ call.value = Str("a'b") => out.value = Str("'a'\\''b'")

C14_Witness ==
    /\ Returned("shellQuote")
    /\ call.value = <<"'", "$", ";">>
    /\ out.value = Str("''\\''$;'")

\* The tools whose handler builds a command line around caller's strings.
TemplateTools ==
    {"iphone_list_dir", "iphone_read_file", "iphone_write_file", "iphone_get_logs",
     "iphone_get_crash_logs"}

\* The command line the handler's template gives for harmless strings in the
\* place of the caller's: a path /x/y, the text x.
TemplateCommand ==
    LET args == request.args
    IN  CASE request.tool = "iphone_list_dir" ->
                 ListDirCommand(Str("/x/y"),
                                IF args.show_hidden THEN Str("-la") ELSE Str("-l"),
                                args.max_entries)
          [] request.tool = "iphone_read_file" ->
                 ReadFileCommand(Str("/x/y"), args.encoding, args.max_bytes)
          [] request.tool = "iphone_write_file" ->
                 WriteFileCommand(Str("/x/y"), Str("x"), args.mode)
          [] request.tool = "iphone_get_logs" ->
                 LogsCommand(IF args.filter = Absent \/ Len(args.filter) = 0
                             THEN args.filter ELSE Str("x"),
                             args.lines, args.minutes)
          [] request.tool = "iphone_get_crash_logs" ->
                 CrashLogsCommand(Str("x"), args.lines)

\* C15: the caller's strings enter a command line only through shellQuote, so
\* no choice of path, content, filter or app name adds a shell word or a
\* command to the handler's template: every command sent to ssh.execRemote by
\* iphone_list_dir, iphone_read_file, iphone_write_file, iphone_get_logs and
\* iphone_get_crash_logs has its quotes closed and as many shell words as the
\* template has.
C15_OnlyShellQuote ==
    request.tool \in TemplateTools =>
        \A k \in 1..Len(events) :
            events[k].ev = "ssh.execRemote" =>
                /\ ShellParse(events[k].arg).closed
                /\ Len(ShellParse(events[k].arg).words)
                       = Len(ShellParse(TemplateCommand).words)

\* The escaped class: backslash, white space, the three quotes and
\* $ ! # & * ( ) [ ] { } ; < > ? | ~ :
EscapedClass ==
    {"\\", " ", "\t", "\n", "\"", "'", Backquote, "$", "!", "#", "&", "*", "(", ")",
     "[", "]", "{", "}", ";", "<", ">", "?", "|", "~", ":"}

\* How many characters of the class s has up to position i.
ClassCount(s, i) == Cardinality({k \in 1..i : s[k] \in EscapedClass})

\* t without the backslashes that escape a character.
RECURSIVE UnescapeFrom(_, _, _)
UnescapeFrom(t, i, acc) ==
    IF i > Len(t) THEN acc
    ELSE IF t[i] = "\\" /\ i < Len(t)
    THEN UnescapeFrom(t, i + 2, Append(acc, t[i + 1]))
    ELSE UnescapeFrom(t, i + 1, Append(acc, t[i]))

\* C16: escapeScpRemotePath(s) is s with one backslash before every character
\* of the escaped class and every other character unchanged in place; it adds
\* no surrounding quotes, returns s itself when s has no character of the
\* class, and s comes back when the inserted backslashes are removed.
C16_EscapeInPlace ==
    Returned("escapeScpRemotePath") =>
        LET s == call.value
            r == out.value
        IN  /\ Len(r) = Len(s) + ClassCount(s, Len(s))
            /\ \A i \in 1..Len(s) :
                   /\ r[i + ClassCount(s, i)] = s[i]
                   /\ s[i] \in EscapedClass => r[i + ClassCount(s, i) - 1] = "\\"
            /\ ClassCount(s, Len(s)) = 0 => r = s
            /\ UnescapeFrom(r, 1, <<>>) = s
            /\ s = Str("/tmp/my file.deb") => r = Str("/tmp/my\\ file.deb")
            /\ s = Str("/tmp/weird'file") => r = Str("/tmp/weird\\'file")

C16_Witness ==
    /\ Returned("escapeScpRemotePath")
    /\ call.value = <<"'", ":">>
    /\ out.value = <<"\\", "'", "\\", ":">>

(***************************************************************************)
(* Properties of single tools                                              *)
(***************************************************************************)

Confirmed == "confirm" \in DOMAIN request.args /\ request.args.confirm

\* C17: iphone_respring requires confirm=true: when confirm is false or
\* absent no remote command is executed and the tool returns the error result
\* "Refused: set confirm=true"; the SpringBoard kill command is sent only when
\* confirm is true.
C17_RespringNeedsConfirm ==
    Handling("iphone_respring") =>
        /\ ~Confirmed =>
               /\ events = <<>>
               /\ response.isError
               /\ response.kind = "Refused: set confirm=true"
        /\ \A k \in 1..Len(events) :
               events[k].ev = "ssh.execRemote" =>
                   (Confirmed /\ events[k].arg = Str("killall -9 SpringBoard"))
        /\ Confirmed => Executed

C17_Witness ==
    /\ Handling("iphone_respring")
    /\ "confirm" \notin DOMAIN request.args
    /\ response.kind = "Refused: set confirm=true"

C17_WitnessConfirmed ==
    /\ Handling("iphone_respring")
    /\ Confirmed
    /\ Executed

(***************************************************************************)
(* Properties of the SshRunner's attempts                                  *)
(***************************************************************************)

\* The messages that match the authentication-failure pattern: each names
\* one of its alternatives.
AuthFailureTexts ==
    { Str("root@10.0.0.2: Permission denied (publickey,password)."),
      Str("Received disconnect: Too many authentication failures"),
      Str("cat: /etc/master.passwd: Permission denied") }

\* The call has its result in hand.
Returning == ssh.pc = "done"

\* C18: execRemote, copyFromRemote and copyToRemote make their first attempt
\* in key mode; a second attempt is in password mode and is made only after
\* a failed key attempt whose stderr is an authentication failure, with a
\* password configured; there are never more than two attempts; the result
\* returned is the last attempt's; without a password there is exactly one.
C18_KeyFirst ==
    LET attempts == ssh.attempts
        n == Len(ssh.attempts)
    IN  /\ n <= 2
        /\ n >= 1 => attempts[1].authMode = "key"
        /\ n = 2 =>
               /\ attempts[2].authMode = "password"
               /\ ~attempts[1].ok
               /\ attempts[1].exitCode # 0
               /\ ssh.password
               /\ attempts[1].stderr \in AuthFailureTexts
        /\ Returning => n >= 1 /\ ssh.result = attempts[n]
        /\ Returning /\ ~ssh.password => n = 1

\* A call that fell back to the password and returns the second attempt.
C18_Witness ==
    /\ Returning
    /\ ssh.password
    /\ Len(ssh.attempts) = 2
    /\ ssh.result.authMode = "password"

\* A call without a password returns its failed key attempt.
C18_WitnessNoPassword ==
    /\ Returning
    /\ ~ssh.password
    /\ Len(ssh.attempts) = 1
    /\ ~ssh.result.ok
    /\ ssh.result.stderr \in AuthFailureTexts

(***************************************************************************)
(* Properties of the policy functions under concurrent requests            *)
(***************************************************************************)

\* What the call returns when it is the only one made.
Alone(c) ==
    CASE c.fn = "normalizeRemotePath" -> normalizeRemotePath(c.value)
      [] c.fn = "ensureAllowedWritePaths" -> ensureAllowedWritePaths(c.paths, c.roots)
      [] c.fn = "matchDeniedPattern" -> Ok(matchDeniedPattern(c.command, DENY_PATTERNS))
      [] c.fn = "isLikelyWriteCommand" -> Ok(isLikelyWriteCommand(c.command))
      [] c.fn = "shellQuote" -> Ok(shellQuote(c.value))
      [] c.fn = "escapeScpRemotePath" -> Ok(escapeScpRemotePath(c.value))

Finished(i) == inflight[i].out.kind # "none"

\* C19: in every order of the concurrent calls of normalizeRemotePath,
\* ensureAllowedWritePaths, matchDeniedPattern, isLikelyWriteCommand,
\* shellQuote and escapeScpRemotePath, each call returns what it returns
\* alone, and the denial-rule table, the write-signature table and the
\* lists passed stay as they were.
C19_NoSharedState ==
    /\ \A i \in DOMAIN inflight :
           Finished(i) => inflight[i].out = Alone(inflight[i].call)
    /\ \A k \in DOMAIN shared.DENY_PATTERNS :
           /\ shared.DENY_PATTERNS[k].regex.lastIndex = 0
           /\ shared.DENY_PATTERNS[k].regex.regex = DENY_PATTERNS[k].regex
           /\ shared.DENY_PATTERNS[k].reason = DENY_PATTERNS[k].reason
    /\ \A k \in DOMAIN shared.WRITE_COMMAND_PATTERNS :
           /\ shared.WRITE_COMMAND_PATTERNS[k].lastIndex = 0
           /\ shared.WRITE_COMMAND_PATTERNS[k].regex = WRITE_COMMAND_PATTERNS[k]
    /\ \A i \in DOMAIN inflight :
           inflight[i].call.fn = "ensureAllowedWritePaths" =>
               /\ shared.paths = inflight[i].call.paths
               /\ shared.roots = inflight[i].call.roots

\* Two requests have had the same command matched against the denial rules,
\* one after the other.
C19_Witness ==
    /\ Len(inflight) >= 2
    /\ \A i \in DOMAIN inflight : Finished(i)
    /\ \E i, j \in DOMAIN inflight :
           /\ i # j
           /\ inflight[i].call.fn = "matchDeniedPattern"
           /\ inflight[j].call = inflight[i].call
           /\ inflight[i].out.value # Null
           /\ inflight[j].out.value # Null

(***************************************************************************)
(* Properties of the command iphone_write_file builds                      *)
(***************************************************************************)

\* The command the handler sent to the device.
SentCommand ==
    events[CHOOSE k \in 1..Len(events) : events[k].ev = "ssh.execRemote"].arg

\* The positions of the command names of a list joined by &&.
Heads(words) == {k \in 1..Len(words) : k = 1 \/ words[k - 1] = Str("&&")}

\* The directory each mkdir -p of the list makes.
MkdirTargets(words) ==
    {words[k + 2] : k \in {j \in Heads(words) :
        j + 2 <= Len(words) /\ words[j] = Str("mkdir") /\ words[j + 1] = Str("-p")}}

\* The file each > of the list writes.
RedirectTargets(words) ==
    {words[k + 1] : k \in {j \in 1..(Len(words) - 1) : words[j] = Str(">")}}

\* The file each chmod of the list changes.
ChmodTargets(words) ==
    {words[k + 2] : k \in {j \in Heads(words) :
        j + 2 <= Len(words) /\ words[j] = Str("chmod")}}

MutationTargets(words) ==
    MkdirTargets(words) \cup RedirectTargets(words) \cup ChmodTargets(words)

\* C20: every path the command of iphone_write_file creates or changes (the
\* directory of mkdir -p, the file printf is redirected to, the file of
\* chmod) lies inside an allowed write root, whatever accepted path the
\* caller gave, an allowed root itself included.
C20_WriteFileTargetsInside ==
    Handling("iphone_write_file") /\ Executed =>
        \A target \in MutationTargets(ShellParse(SentCommand).words) :
            InsideAllowedWriteRoot(target)

(***************************************************************************)
(* Properties of execRemote on the device                                  *)
(***************************************************************************)

\* How many attempts of the call the device ran the command in.
Runs == Cardinality({k \in 1..Len(ssh.ran) : ssh.ran[k]})

\* C21: one execRemote call runs the command on the device at most once,
\* and a password-mode attempt is made only after a key-mode attempt that was
\* refused at login, never after one in which the command itself ran and
\* failed.
C21_RunsAtMostOnce ==
    ssh.op = "execRemote" =>
        /\ Runs <= 1
        /\ Len(ssh.attempts) = 2 => ~ssh.ran[1]

====
